---------------------------- MODULE Spec2Model ----------------------------
(***************************************************************************)
(* A model of the Pathfinder service discovery server (paf): the engine of *)
(* paf/sd.py (clients, engine connections, services, subscriptions,        *)
(* resource accounting, orphan and idle timers), the timer queue of        *)
(* paf/timer.py and the transport connections and transactions of          *)
(* paf/server.py.                                                          *)
(*                                                                         *)
(* The server is single threaded: every event loop callback (a connection  *)
(* becoming readable or writable, the timer source firing, a listen socket *)
(* becoming acceptable) runs to completion.  Every callback is one action. *)
(* The handlers are operators from a state record to a state record, so    *)
(* that a handler calling another handler is operator application.         *)
(*                                                                         *)
(* Time is counted in whole seconds; time.time() returns `now' throughout  *)
(* one callback.  Python None is the integer None for integer valued       *)
(* attributes and the empty sequence for object valued ones.  A Python     *)
(* dict that the code iterates over is a sequence in insertion order.      *)
(***************************************************************************)
EXTENDS Integers, Sequences, FiniteSets, TLC

(***************************************************************************)
(* Bounds of the model.                                                    *)
(***************************************************************************)
NConn == 2          \* transport connections over the run
NClientId == 2      \* client ids 1..NClientId
NServiceId == 2     \* service ids 1..NServiceId
NSubId == 1         \* subscription ids 1..NSubId
MaxRequests == 4    \* requests received over the run
MaxGen == 1         \* generations 0..MaxGen
MaxTTL == 1         \* ttls 1..MaxTTL
MaxTime == 1        \* the clock stops at MaxTime
MaxQueue == 2       \* longest outbound queue explored

ConnIds == 1..NConn
ClientIds == 1..NClientId
ServiceIds == 1..NServiceId
SubIds == 1..NSubId
TaIds == 0..(MaxRequests - 1)
Generations == 0..MaxGen
TTLs == 1..MaxTTL

None == -1

(***************************************************************************)
(* Generic helpers for dicts (functions with a dynamic domain) and lists.  *)
(***************************************************************************)
Put(f, k, v) == [x \in (DOMAIN f) \cup {k} |-> IF x = k THEN v ELSE f[x]]

Del(f, k) == [x \in (DOMAIN f) \ {k} |-> f[x]]

EmptyDict == [x \in {} |-> None]

Remove(seq, x) == SelectSeq(seq, LAMBDA y : y # x)

Contains(seq, x) == \E i \in 1..Len(seq) : seq[i] = x

Min(a, b) == IF a < b THEN a ELSE b

Max(a, b) == IF a > b THEN a ELSE b

(***************************************************************************)
(* Service properties: a dict from key to a set of values, each value a    *)
(* string or an integer (paf/proto.py PropsField.from_wire).               *)
(***************************************************************************)
StrVal(x) == [type |-> "str", str |-> x, int |-> 0]

IntVal(n) == [type |-> "int", str |-> "", int |-> n]

PropsA == [name |-> {StrVal("a")}, n |-> {IntVal(5)}]

PropsB == [name |-> {StrVal("b")}]

ServiceProps == {PropsA, PropsB}

\* str(value) of an integer property value, for the digits the model uses
IntToStr(n) == IF n \in 0..9 THEN <<"0", "1", "2", "3", "4", "5", "6", "7", "8", "9">>[n + 1]
               ELSE "many"

(***************************************************************************)
(* paf/filter.py: the evaluator of parsed filters.                         *)
(***************************************************************************)
NoFilter == [op |-> "none"]

Equal(key, value) == [op |-> "=", key |-> key, str |-> value]

Present(key) == [op |-> "=*", key |-> key]

GreaterThan(key, value) == [op |-> ">", key |-> key, int |-> value]

LessThan(key, value) == [op |-> "<", key |-> key, int |-> value]

Not(operand) == [op |-> "!", operands |-> <<operand>>]

And(operands) == [op |-> "&", operands |-> operands]

Or(operands) == [op |-> "|", operands |-> operands]

Equal_compare(f, value) ==
    IF value.type = "str" THEN f.str = value.str
    ELSE f.str = IntToStr(value.int)

GreaterThan_compare(f, value) == value.type = "int" /\ value.int > f.int

LessThan_compare(f, value) == value.type = "int" /\ value.int < f.int

Comparison_match(f, props) ==
    /\ f.key \in DOMAIN props
    /\ \E value \in props[f.key] :
          CASE f.op = "=" -> Equal_compare(f, value)
            [] f.op = ">" -> GreaterThan_compare(f, value)
            [] f.op = "<" -> LessThan_compare(f, value)

RECURSIVE Filter_match(_, _)
Filter_match(f, props) ==
    CASE f.op \in {"=", ">", "<"} -> Comparison_match(f, props)
      [] f.op = "=*" -> f.key \in DOMAIN props
      [] f.op = "!" -> ~Filter_match(f.operands[1], props)
      [] f.op = "&" -> \A i \in 1..Len(f.operands) : Filter_match(f.operands[i], props)
      [] f.op = "|" -> \E i \in 1..Len(f.operands) : Filter_match(f.operands[i], props)

\* The filters subscribers use; Malformed stands for a string parse() rejects
Malformed == [op |-> "malformed"]

FilterNameA == Equal("name", "a")

FilterNot5 == Not(Equal("n", "5"))

SubFilters == {NoFilter, FilterNameA}

(***************************************************************************)
(* Configuration of one server (paf/conf.py): the pools of clients and     *)
(* their transport addresses, the resource limits, the idle limit and the  *)
(* protocol version range.                                                 *)
(***************************************************************************)
Kinds == {"CLIENT", "SUBSCRIPTION", "SERVICE"}

resources(clients, subscriptions, services) ==
    [CLIENT |-> clients, SUBSCRIPTION |-> subscriptions, SERVICE |-> services]

\* resource limits the model starts from: none, the default of paf/conf.py
ResourceConfs ==
    { [user |-> resources(None, None, None), total |-> resources(None, None, None)] }

MIN_IDLE_MIN == 1

\* the idle limit of the domain, IdleLimit(idle_min, idle_max)
IdleMin == 2

IdleMax == 4

IdleLimit_limit(value) == Min(IdleMax, Max(IdleMin, value))

IdleLimit_idle_default == IdleMax

MIN_VERSION == 2

MAX_VERSION == 3

\* the remote addresses clients connect from (xcm.remote_addr)
UxAddr == [transport |-> "ux", ip |-> ""]

TcpAddr == [transport |-> "tcp", ip |-> "10.0.0.1"]

DEFAULT_USER_ID == "default"

\* Connection.determine_user_id, for sockets without a subject key id
determine_user_id(s, c) ==
    IF s.conns[c].conn_addr.transport \in {"tcp", "tls"} THEN "ip:10.0.0.1"
    ELSE DEFAULT_USER_ID

(***************************************************************************)
(* The state of the server process as one record; the variables of the     *)
(* module are its fields.                                                  *)
(***************************************************************************)
Raise(s, e) == [s |-> s, err |-> e]

Ok(s) == [s |-> s, err |-> ""]

\* an exception nothing catches ends the process (paf/daemon.py run)
Crash(s, what) == [s EXCEPT !.crash = what]

(***************************************************************************)
(* paf/timer.py: TimerManager, a deque of timers sorted by expiry.         *)
(***************************************************************************)
Timer(kind, id, expiration_time) ==
    [kind |-> kind, id |-> id, expiration_time |-> expiration_time]

InsertAt(seq, idx, x) == SubSeq(seq, 1, idx) \o <<x>> \o SubSeq(seq, idx + 1, Len(seq))

RemoveFirst(seq, x) ==
    LET i == CHOOSE j \in 1..Len(seq) : seq[j] = x /\ \A k \in 1..(j - 1) : seq[k] # x
    IN SubSeq(seq, 1, i - 1) \o SubSeq(seq, i + 1, Len(seq))

\* the while loop of _allocate_idx; indices count from 0 as in the code
RECURSIVE allocate_idx_loop(_, _, _, _)
allocate_idx_loop(dq, expiration_time, low, high) ==
    LET idx == (low + high) \div 2 IN
    IF high - low <= 1 THEN idx
    ELSE IF expiration_time > dq[idx + 1].expiration_time
         THEN allocate_idx_loop(dq, expiration_time, idx + 1, high)
    ELSE IF expiration_time < dq[idx + 1].expiration_time
         THEN allocate_idx_loop(dq, expiration_time, low, idx)
    ELSE idx

\* an _allocate_idx that adds every timer last in the list
allocate_idx_last(dq, expiration_time) == Len(dq)

allocate_idx(dq, expiration_time) ==
    IF Len(dq) = 0 THEN 0
    ELSE IF expiration_time > dq[Len(dq)].expiration_time THEN Len(dq)
    ELSE LET idx == allocate_idx_loop(dq, expiration_time, 0, Len(dq)) IN
         IF idx < Len(dq) /\ expiration_time > dq[idx + 1].expiration_time
         THEN idx + 1 ELSE idx

TimerManager_add(s, timer) ==
    [s EXCEPT !.deque = InsertAt(s.deque, allocate_idx(s.deque, timer.expiration_time), timer)]

TimerManager_remove(s, timer) ==
    IF Len(s.deque) = 0 THEN Crash(s, "IndexError")
    ELSE IF s.deque[1] = timer THEN [s EXCEPT !.deque = Tail(s.deque)]
    ELSE IF Contains(s.deque, timer) THEN [s EXCEPT !.deque = RemoveFirst(s.deque, timer)]
    ELSE Crash(s, "ValueError")

TimerManager_next_timeout(s) ==
    IF Len(s.deque) = 0 THEN None ELSE s.deque[1].expiration_time

(***************************************************************************)
(* paf/sd.py: Consumer and ResourceManager.                                *)
(***************************************************************************)
Consumer_has_allocations(used) == \E t \in Kinds : used[t] > 0

ResourceManager_total(s, resource_type) ==
    LET users == DOMAIN s.consumers
        RECURSIVE Sum(_)
        Sum(us) == IF us = {} THEN 0
                   ELSE LET u == CHOOSE x \in us : TRUE
                        IN s.consumers[u][resource_type] + Sum(us \ {u})
    IN Sum(users)

\* ResourceManager.allocate without the check of the user's maximum
ResourceManager_allocate_without_user_max(s, user_id, resource_type) ==
    IF s.max_total_resources[resource_type] # None
       /\ s.max_total_resources[resource_type] = ResourceManager_total(s, resource_type)
    THEN Raise(s, "ResourceError")
    ELSE Ok([s EXCEPT !.consumers =
                 IF user_id \in DOMAIN @
                 THEN [@ EXCEPT ![user_id][resource_type] = @ + 1]
                 ELSE Put(@, user_id, [resources(0, 0, 0) EXCEPT ![resource_type] = 1])])

\* ResourceManager.allocate without check_total
ResourceManager_allocate_without_check_total(s, user_id, resource_type) ==
    IF /\ user_id \in DOMAIN s.consumers
       /\ s.max_user_resources[resource_type] # None
       /\ s.consumers[user_id][resource_type] = s.max_user_resources[resource_type]
    THEN Raise(s, "ResourceError")
    ELSE Ok([s EXCEPT !.consumers =
                 IF user_id \in DOMAIN @
                 THEN [@ EXCEPT ![user_id][resource_type] = @ + 1]
                 ELSE Put(@, user_id, [resources(0, 0, 0) EXCEPT ![resource_type] = 1])])

\* check_total, then the creation of the consumer, then Consumer.allocate
ResourceManager_allocate(s, user_id, resource_type) ==
    LET limit == s.max_total_resources[resource_type]
        max == s.max_user_resources[resource_type]
        s1 == IF user_id \in DOMAIN s.consumers THEN s
              ELSE [s EXCEPT !.consumers = Put(@, user_id, resources(0, 0, 0))]
        used == s1.consumers[user_id][resource_type]
    IN IF limit # None /\ limit = ResourceManager_total(s, resource_type)
       THEN Raise(s, "ResourceError")
       ELSE IF max # None /\ used = max THEN Raise(s1, "ResourceError")
       ELSE Ok([s1 EXCEPT !.consumers[user_id][resource_type] = @ + 1])

ResourceManager_deallocate(s, user_id, resource_type) ==
    IF user_id \notin DOMAIN s.consumers THEN Crash(s, "KeyError")
    ELSE IF s.consumers[user_id][resource_type] = 0 THEN Crash(s, "AssertionError")
    ELSE LET used == [s.consumers[user_id] EXCEPT ![resource_type] = @ - 1] IN
         IF Consumer_has_allocations(used)
         THEN [s EXCEPT !.consumers[user_id] = used]
         ELSE [s EXCEPT !.consumers = Del(@, user_id)]

(***************************************************************************)
(* paf/server.py: what the engine's callbacks need of a transport          *)
(* Connection: its outbound queue and the messages put on it.              *)
(***************************************************************************)
Message(ta_cmd, ta_id, msg_type, args) ==
    [ta_cmd |-> ta_cmd, ta_id |-> ta_id, msg_type |-> msg_type, args |-> args]

NoArgs == [x \in {} |-> None]

\* Connection.respond; update_source only recomputes the socket conditions
\* from the length of the queue (see receivable and sendable)
Connection_respond(s, c, out_wire_msg) ==
    [s EXCEPT !.conns[c].out_wire_msgs = Append(@, out_wire_msg)]

Connection_sendable(s, c) == Len(s.conns[c].out_wire_msgs) > 0

DB_has_subscription(s, sub_id) ==
    \E i \in 1..Len(s.subscriptions) : s.subscriptions[i].sub_id = sub_id

DB_get_subscription(s, sub_id) ==
    LET i == CHOOSE j \in 1..Len(s.subscriptions) : s.subscriptions[j].sub_id = sub_id
    IN s.subscriptions[i]

\* Connection.subscription_triggered, the match callback of a subscription
Connection_subscription_triggered(s, c, sub_id, match_type, service_id, prev, cur) ==
    IF ~DB_has_subscription(s, sub_id) THEN Crash(s, "AttributeError")
    ELSE IF sub_id \notin DOMAIN s.conns[c].sub_tas THEN Crash(s, "KeyError")
    ELSE LET ta_id == s.conns[c].sub_tas[sub_id] IN
         IF match_type = "DISAPPEARED"
         THEN Connection_respond(s, c, Message("subscribe", ta_id, "notify",
                  [match_type |-> "disappeared", service_id |-> service_id]))
         ELSE Connection_respond(s, c, Message("subscribe", ta_id, "notify",
                  [match_type |-> IF match_type = "APPEARED" THEN "appeared" ELSE "modified",
                   service_id |-> service_id,
                   generation |-> cur.generation,
                   service_props |-> cur.props,
                   ttl |-> cur.ttl,
                   client_id |-> cur.client_id,
                   orphan_since |-> cur.orphan_since]))

(***************************************************************************)
(* paf/sd.py: Subscription, Generation and Service.                        *)
(***************************************************************************)
Subscription(sub_id, filter, client_id, user_id, match_cb) ==
    [sub_id |-> sub_id, filter |-> filter, client_id |-> client_id,
     user_id |-> user_id, match_cb |-> match_cb]

Subscription_matches(sub, props) ==
    IF sub.filter.op = "none" THEN TRUE ELSE Filter_match(sub.filter, props)

\* Subscription.notify with the two one-sided cases of MODIFIED exchanged
Subscription_notify_type_exchanged(sub, change_type, prev, cur) ==
    IF change_type = "ADDED"
    THEN IF Subscription_matches(sub, cur.props) THEN "APPEARED" ELSE ""
    ELSE IF change_type = "MODIFIED"
    THEN LET before == Subscription_matches(sub, prev.props)
             after == Subscription_matches(sub, cur.props)
         IN IF before /\ after THEN "MODIFIED"
            ELSE IF ~before /\ after THEN "DISAPPEARED"
            ELSE IF before /\ ~after THEN "APPEARED"
            ELSE ""
    ELSE IF Subscription_matches(sub, prev.props) THEN "DISAPPEARED" ELSE ""

\* the decision of Subscription.notify: the match type, or "" for none
Subscription_notify_type(sub, change_type, prev, cur) ==
    IF change_type = "ADDED"
    THEN IF Subscription_matches(sub, cur.props) THEN "APPEARED" ELSE ""
    ELSE IF change_type = "MODIFIED"
    THEN LET before == Subscription_matches(sub, prev.props)
             after == Subscription_matches(sub, cur.props)
         IN IF before /\ after THEN "MODIFIED"
            ELSE IF ~before /\ after THEN "APPEARED"
            ELSE IF before /\ ~after THEN "DISAPPEARED"
            ELSE ""
    ELSE IF Subscription_matches(sub, prev.props) THEN "DISAPPEARED" ELSE ""

Subscription_notify(s, sub, change_type, service_id, prev, cur) ==
    LET match_type == Subscription_notify_type(sub, change_type, prev, cur) IN
    IF match_type = "" THEN s
    ELSE Connection_subscription_triggered(s, sub.match_cb, sub.sub_id, match_type,
                                           service_id, prev, cur)

Generation(generation, props, ttl, orphan_since, client_id, user_id) ==
    [generation |-> generation, props |-> props, ttl |-> ttl,
     orphan_since |-> orphan_since, client_id |-> client_id, user_id |-> user_id]

\* the absent generation of a service that is being added or was removed
NoGeneration == Generation(None, EmptyDict, None, None, None, "")

Generation_is_orphan(g) == g.orphan_since # None

\* an orphan timeout that leaves out the ttl
Generation_orphan_timeout_without_ttl(g) == g.orphan_since

Generation_orphan_timeout(g) == g.orphan_since + g.ttl

\* db.services: the services in insertion order, each with its current
\* generation.  The previous generation of a Service is only read while a
\* commit is fanned out, where it is the generation the commit replaced.
DB_has_service(s, service_id) ==
    \E i \in 1..Len(s.services) : s.services[i].service_id = service_id

DB_service_idx(s, service_id) ==
    CHOOSE j \in 1..Len(s.services) : s.services[j].service_id = service_id

DB_get_service(s, service_id) == s.services[DB_service_idx(s, service_id)].cur

DB_add_service(s, service_id, cur) ==
    [s EXCEPT !.services = Append(@, [service_id |-> service_id, cur |-> cur])]

DB_remove_service(s, service_id) ==
    [s EXCEPT !.services = SelectSeq(@, LAMBDA e : e.service_id # service_id)]

(***************************************************************************)
(* paf/sd.py: the orphan timers of ServiceDiscovery and service_changed.   *)
(***************************************************************************)
add_orphan_timer(s, service_id, cur) ==
    LET timer == Timer("orphan", service_id, Generation_orphan_timeout(cur)) IN
    [TimerManager_add(s, timer) EXCEPT !.orphan_timers = Put(@, service_id, timer)]

remove_orphan_timer(s, service_id) ==
    IF service_id \in DOMAIN s.orphan_timers
    THEN TimerManager_remove([s EXCEPT !.orphan_timers = Del(@, service_id)],
                             s.orphan_timers[service_id])
    ELSE s

update_orphan_timer(s, service_id, prev, cur) ==
    IF Generation_orphan_timeout(cur) # Generation_orphan_timeout(prev)
    THEN add_orphan_timer(remove_orphan_timer(s, service_id), service_id, cur)
    ELSE s

\* maintain_orphans leaving the timer of a service that stops being an orphan
maintain_orphans_keeping_timer(s, change, service_id, prev, cur) ==
    IF change = "ADDED"
    THEN IF Generation_is_orphan(cur) THEN add_orphan_timer(s, service_id, cur) ELSE s
    ELSE IF change = "MODIFIED"
    THEN LET is_orphan == Generation_is_orphan(cur)
             was_orphan == Generation_is_orphan(prev)
         IN IF ~was_orphan /\ is_orphan THEN add_orphan_timer(s, service_id, cur)
            ELSE IF was_orphan /\ is_orphan THEN update_orphan_timer(s, service_id, prev, cur)
            ELSE s
    ELSE IF Generation_is_orphan(prev) THEN remove_orphan_timer(s, service_id) ELSE s

maintain_orphans(s, change, service_id, prev, cur) ==
    IF change = "ADDED"
    THEN IF Generation_is_orphan(cur) THEN add_orphan_timer(s, service_id, cur) ELSE s
    ELSE IF change = "MODIFIED"
    THEN LET is_orphan == Generation_is_orphan(cur)
             was_orphan == Generation_is_orphan(prev)
         IN IF was_orphan /\ ~is_orphan THEN remove_orphan_timer(s, service_id)
            ELSE IF ~was_orphan /\ is_orphan THEN add_orphan_timer(s, service_id, cur)
            ELSE IF was_orphan /\ is_orphan THEN update_orphan_timer(s, service_id, prev, cur)
            ELSE s
    ELSE IF Generation_is_orphan(prev) THEN remove_orphan_timer(s, service_id) ELSE s

RECURSIVE notify_subscriptions(_, _, _, _, _, _)
notify_subscriptions(s, subs, change, service_id, prev, cur) ==
    IF subs = <<>> THEN s
    ELSE notify_subscriptions(
             Subscription_notify(s, Head(subs), change, service_id, prev, cur),
             Tail(subs), change, service_id, prev, cur)

\* ServiceDiscovery.service_changed, the change callback of every Service
service_changed(s, change, service_id, prev, cur) ==
    maintain_orphans(notify_subscriptions(s, s.subscriptions, change, service_id, prev, cur),
                     change, service_id, prev, cur)

\* Service.modify and commit(MODIFIED): ng replaces the current generation
Service_modify(s, service_id, ng) ==
    LET i == DB_service_idx(s, service_id)
        prev == s.services[i].cur
    IN service_changed([s EXCEPT !.services[i].cur = ng], "MODIFIED", service_id, prev, ng)

\* Service.remove and commit(REMOVED) of a service already taken out of db
Service_remove(s, service_id, prev) ==
    service_changed(s, "REMOVED", service_id, prev, NoGeneration)

(***************************************************************************)
(* paf/sd.py: the engine Connection and the Client.  s.clients is          *)
(* db.clients; a Client has at most one active connection and a list of    *)
(* inactive ones.  A connection of a client is addressed by its position   *)
(* in get_connections(): the active one first, then the inactive ones.     *)
(***************************************************************************)
SdConnection ==
    [services |-> <<>>, subscriptions |-> <<>>, disconnected_at |-> None,
     idle_state |-> "ACTIVE", idle_timer |-> None]

Client(user_id) == [user_id |-> user_id, active |-> <<>>, inactive |-> <<>>]

SdConnection_is_connected(ec) == ec.disconnected_at = None

SdConnection_is_stale(ec) == ~SdConnection_is_connected(ec) /\ Len(ec.services) = 0

Client_is_connected(cl) == Len(cl.active) > 0

Client_get_connections(cl) == cl.active \o cl.inactive

Client_is_stale(cl) ==
    \A i \in 1..Len(Client_get_connections(cl)) :
        SdConnection_is_stale(Client_get_connections(cl)[i])

\* get_service_connection: the position of the first connection that has
\* the service, 0 for None
Client_get_service_connection(cl, service_id) ==
    LET conns == Client_get_connections(cl)
        has == {i \in 1..Len(conns) : Contains(conns[i].services, service_id)}
    IN IF has = {} THEN 0 ELSE CHOOSE i \in has : \A j \in has : i <= j

Client_get_subscription_connection(cl, sub_id) ==
    LET conns == Client_get_connections(cl)
        has == {i \in 1..Len(conns) : Contains(conns[i].subscriptions, sub_id)}
    IN IF has = {} THEN 0 ELSE CHOOSE i \in has : \A j \in has : i <= j

Client_set_connection(cl, i, ec) ==
    IF i <= Len(cl.active) THEN [cl EXCEPT !.active[i] = ec]
    ELSE [cl EXCEPT !.inactive[i - Len(cl.active)] = ec]

\* remove_connection of the connection at position i (an inactive one)
Client_remove_connection(cl, i) ==
    LET j == i - Len(cl.active) IN
    [cl EXCEPT !.inactive = SubSeq(@, 1, j - 1) \o SubSeq(@, j + 1, Len(@))]

DB_remove_subscription(s, sub_id) ==
    [s EXCEPT !.subscriptions = SelectSeq(@, LAMBDA e : e.sub_id # sub_id)]

\* Client.remove_subscription
Client_remove_subscription(s, k, sub) ==
    LET cl == s.clients[k]
        i == Client_get_subscription_connection(cl, sub.sub_id)
    IN IF i = 0 THEN Crash(s, "AttributeError")
       ELSE LET ec == Client_get_connections(cl)[i]
                ec1 == [ec EXCEPT !.subscriptions = Remove(@, sub.sub_id)]
                s1 == [s EXCEPT !.clients[k] = Client_set_connection(cl, i, ec1)]
                s2 == DB_remove_subscription(s1, sub.sub_id)
            IN ResourceManager_deallocate(s2, sub.user_id, "SUBSCRIPTION")

\* a disconnect that leaves the subscriptions of the connection
Client_remove_subscriptions_of_none(s, k, sub_ids) == s

RECURSIVE Client_remove_subscriptions(_, _, _)
Client_remove_subscriptions(s, k, sub_ids) ==
    IF sub_ids = <<>> THEN s
    ELSE IF ~DB_has_subscription(s, Head(sub_ids)) THEN Crash(s, "KeyError")
    ELSE Client_remove_subscriptions(
             Client_remove_subscription(s, k, DB_get_subscription(s, Head(sub_ids))),
             k, Tail(sub_ids))

\* Connection.uninstall_idle_timer of the active connection of client k
SdConnection_uninstall_idle_timer(s, k) ==
    LET ec == s.clients[k].active[1] IN
    IF ec.idle_timer # None
    THEN [TimerManager_remove(s, Timer("idle", k, ec.idle_timer))
              EXCEPT !.clients[k].active[1].idle_timer = None]
    ELSE s

\* the loop of Client.disconnect that turns the services into orphans
RECURSIVE Client_orphan_services(_, _, _)
Client_orphan_services(s, service_ids, disconnected_at) ==
    IF service_ids = <<>> THEN s
    ELSE IF ~DB_has_service(s, Head(service_ids)) THEN Crash(s, "AttributeError")
    ELSE Client_orphan_services(
             Service_modify(s, Head(service_ids),
                 [DB_get_service(s, Head(service_ids)) EXCEPT !.orphan_since = disconnected_at]),
             Tail(service_ids), disconnected_at)

\* Client.disconnect
Client_disconnect(s, k) ==
    IF ~Client_is_connected(s.clients[k]) THEN Crash(s, "AssertionError")
    ELSE
    LET user_id == s.clients[k].user_id
        forget(s6) ==
            IF Client_is_stale(s6.clients[k]) THEN [s6 EXCEPT !.clients = Del(@, k)] ELSE s6
        orphan(s4, inactivated) ==
            forget(ResourceManager_deallocate(
                       Client_orphan_services(s4, inactivated.services, s.now),
                       user_id, "CLIENT"))
        drop(s3, inactivated) ==
            orphan(IF Len(inactivated.services) = 0
                   THEN [s3 EXCEPT !.clients[k].inactive = SubSeq(@, 1, Len(@) - 1)]
                   ELSE s3,
                   inactivated)
        inactivate(s1, inactivated) ==
            drop(Client_remove_subscriptions(
                     [s1 EXCEPT !.clients[k].active = <<>>,
                                !.clients[k].inactive = Append(@, inactivated)],
                     k, inactivated.subscriptions),
                 inactivated)
        uninstalled(s1) ==
            inactivate(s1, [s1.clients[k].active[1] EXCEPT !.disconnected_at = s.now])
    IN uninstalled(SdConnection_uninstall_idle_timer(s, k))

\* ServiceDiscovery.client_disconnect
ServiceDiscovery_client_disconnect(s, client_id) ==
    IF client_id \notin DOMAIN s.clients THEN Crash(s, "NotFoundError")
    ELSE Client_disconnect(s, client_id)

(***************************************************************************)
(* paf/server.py: Connection.terminate and Server.conn_terminated.         *)
(***************************************************************************)
ClosedConnection ==
    [open |-> FALSE, client_id |-> None, proto_version |-> None, handshaked |-> FALSE,
     tas |-> EmptyDict, sub_tas |-> EmptyDict, track_ta_id |-> None,
     track_query_ts |-> None, out_wire_msgs |-> <<>>, connect_time |-> None,
     conn_addr |-> UxAddr]

Server_num_connections(s) ==
    Cardinality(s.clientless_connections) + Cardinality(DOMAIN s.client_connections)

Server_client_capacity_left(s) ==
    IF s.max_total_resources["CLIENT"] = None THEN None
    ELSE s.max_total_resources["CLIENT"] - Server_num_connections(s)

Server_max_clients_reached(s) == Server_client_capacity_left(s) = 0

\* a Server.conn_terminated that leaves the listening sockets as they are
Server_conn_terminated_without_update(s, c) ==
    IF s.conns[c].handshaked
    THEN IF s.conns[c].client_id \notin DOMAIN s.client_connections THEN Crash(s, "KeyError")
         ELSE [s EXCEPT !.client_connections = Del(@, s.conns[c].client_id),
                        !.conns[c] = ClosedConnection]
    ELSE IF c \notin s.clientless_connections THEN Crash(s, "KeyError")
         ELSE [s EXCEPT !.clientless_connections = @ \ {c},
                        !.conns[c] = ClosedConnection]

Server_conn_terminated(s, c) ==
    LET s1 == IF Server_max_clients_reached(s) THEN [s EXCEPT !.acceptable = TRUE] ELSE s IN
    IF s.conns[c].handshaked
    THEN IF s.conns[c].client_id \notin DOMAIN s1.client_connections THEN Crash(s1, "KeyError")
         ELSE [s1 EXCEPT !.client_connections = Del(@, s.conns[c].client_id),
                         !.conns[c] = ClosedConnection]
    ELSE IF c \notin s1.clientless_connections THEN Crash(s1, "KeyError")
         ELSE [s1 EXCEPT !.clientless_connections = @ \ {c},
                         !.conns[c] = ClosedConnection]

Connection_terminate(s, c) ==
    Server_conn_terminated(IF s.conns[c].handshaked
                           THEN ServiceDiscovery_client_disconnect(s, s.conns[c].client_id)
                           ELSE s,
                           c)

(***************************************************************************)
(* paf/sd.py and paf/server.py: idle detection.  The idle timer of the     *)
(* active connection of client k is Timer("idle", k, expiry).  s.rnd is    *)
(* the value random.random() takes in this callback, as a direction.       *)
(***************************************************************************)
WARNING_THRESHOLD_DIV == 2

WARNING_JITTER_DIV == 10

\* jitter(base, max_jitter) in whole seconds: k * base for the extreme and
\* the middle values of k
jitter(base, rnd) == base + rnd * (base \div WARNING_JITTER_DIV)

JitterChoices == IF IdleMax \div WARNING_THRESHOLD_DIV >= WARNING_JITTER_DIV
                 THEN {-1, 0, 1} ELSE {0}

RECURSIVE MinTTL(_, _)
MinTTL(s, service_ids) ==
    LET ttl == DB_get_service(s, Head(service_ids)).ttl IN
    IF Len(service_ids) = 1 THEN ttl ELSE Min(ttl, MinTTL(s, Tail(service_ids)))

SdConnection_get_lowest_ttl(s, ec) == MinTTL(s, ec.services)

SdConnection_max_idle_time(s, ec) ==
    IF Len(ec.services) > 0 THEN IdleLimit_limit(SdConnection_get_lowest_ttl(s, ec))
    ELSE IdleLimit_idle_default

\* a Connection.install_idle_timer that leaves the timer installed before
SdConnection_install_idle_timer_leaving(s, k, t) ==
    [TimerManager_add(s, Timer("idle", k, s.now + t))
        EXCEPT !.clients[k].active[1].idle_timer = s.now + t]

SdConnection_install_idle_timer(s, k, t) ==
    LET s1 == SdConnection_uninstall_idle_timer(s, k)
        timer == Timer("idle", k, s.now + t)
    IN [TimerManager_add(s1, timer)
            EXCEPT !.clients[k].active[1].idle_timer = timer.expiration_time]

SdConnection_install_idle_warning_timer(s, k) ==
    LET max_idle == SdConnection_max_idle_time(s, s.clients[k].active[1]) IN
    SdConnection_install_idle_timer(s, k, jitter(max_idle \div WARNING_THRESHOLD_DIV, s.rnd))

SdConnection_install_idle_timeout_timer(s, k) ==
    LET max_idle == SdConnection_max_idle_time(s, s.clients[k].active[1]) IN
    SdConnection_install_idle_timer(s, k, max_idle - max_idle \div WARNING_THRESHOLD_DIV)

\* a Connection.active that leaves the pending idle timer in place
SdConnection_active_keeping_timer(s, k) ==
    IF s.clients[k].active[1].idle_state # "TIMED_OUT"
    THEN [s EXCEPT !.clients[k].active[1].idle_state = "ACTIVE"]
    ELSE s

\* Connection.active of the active connection of client k
SdConnection_active(s, k) ==
    IF s.clients[k].active[1].idle_state # "TIMED_OUT"
    THEN SdConnection_install_idle_warning_timer(
             [s EXCEPT !.clients[k].active[1].idle_state = "ACTIVE"], k)
    ELSE s

Client_active(s, k) ==
    IF ~Client_is_connected(s.clients[k]) THEN Crash(s, "AssertionError")
    ELSE SdConnection_active(s, k)

ServiceDiscovery_client_active(s, client_id) ==
    IF client_id \notin DOMAIN s.clients THEN Crash(s, "AttributeError")
    ELSE Client_active(s, client_id)

Connection_is_tracked(s, c) ==
    s.conns[c].track_ta_id # None /\ s.conns[c].track_ta_id \in DOMAIN s.conns[c].tas

Connection_has_outstanding_track_query(s, c) ==
    Connection_is_tracked(s, c) /\ s.conns[c].track_query_ts # None

Connection_track_query(s, c, ta_id) ==
    Connection_respond([s EXCEPT !.conns[c].track_query_ts = s.now], c,
                       Message("track", ta_id, "notify", [track_type |-> "query"]))

\* a Connection.check_idle that treats every protocol version as version 3
Connection_check_idle_of_version_3(s, c) ==
    IF Connection_is_tracked(s, c) /\ ~Connection_has_outstanding_track_query(s, c)
    THEN Connection_track_query(s, c, s.conns[c].track_ta_id)
    ELSE s

\* Connection.check_idle of paf/server.py
Connection_check_idle(s, c) ==
    IF s.conns[c].proto_version < 3
    THEN ServiceDiscovery_client_active(s, s.conns[c].client_id)
    ELSE IF Connection_is_tracked(s, c) /\ ~Connection_has_outstanding_track_query(s, c)
    THEN Connection_track_query(s, c, s.conns[c].track_ta_id)
    ELSE s

\* Server.client_idle, the idle callback of every engine connection
Server_client_idle(s, k, warning) ==
    IF k \notin DOMAIN s.client_connections THEN Crash(s, "KeyError")
    ELSE IF warning THEN Connection_check_idle(s, s.client_connections[k])
    ELSE Connection_terminate(s, s.client_connections[k])

\* a Connection.issue_idle_warning that installs no timeout timer
SdConnection_issue_idle_warning_without_timer(s, k) ==
    Server_client_idle([s EXCEPT !.clients[k].active[1].idle_state = "TENTATIVE"], k, TRUE)

SdConnection_issue_idle_warning(s, k) ==
    LET warned(s1) ==
            IF s1.crash # "" THEN s1 ELSE SdConnection_install_idle_timeout_timer(s1, k)
    IN warned(Server_client_idle([s EXCEPT !.clients[k].active[1].idle_state = "TENTATIVE"],
                                 k, TRUE))

\* a Connection.issue_idle_timeout that spares the connections without a
\* track transaction
SdConnection_issue_idle_timeout_of_tracked(s, k) ==
    IF k \in DOMAIN s.client_connections
       /\ ~Connection_is_tracked(s, s.client_connections[k])
    THEN s
    ELSE Server_client_idle([s EXCEPT !.clients[k].active[1].idle_state = "TIMED_OUT"],
                            k, FALSE)

SdConnection_issue_idle_timeout(s, k) ==
    Server_client_idle([s EXCEPT !.clients[k].active[1].idle_state = "TIMED_OUT"], k, FALSE)

\* Connection.idle_timer_fired, the handler of Timer("idle", k, _)
SdConnection_idle_timer_fired(s, k) ==
    IF k \notin DOMAIN s.clients \/ ~Client_is_connected(s.clients[k])
    THEN Crash(s, "StaleIdleTimer")
    ELSE LET s1 == [s EXCEPT !.clients[k].active[1].idle_timer = None]
             idle_state == s.clients[k].active[1].idle_state
         IN IF idle_state = "ACTIVE" THEN SdConnection_issue_idle_warning(s1, k)
            ELSE IF idle_state # "TENTATIVE" THEN Crash(s1, "AssertionError")
            ELSE SdConnection_issue_idle_timeout(s1, k)

\* a Connection.check_idle that leaves the probe to the idle warning timer
SdConnection_check_idle_at_timer(s, k) == s

\* Connection.check_idle of paf/sd.py
SdConnection_check_idle(s, k) ==
    IF s.clients[k].active[1].idle_state = "ACTIVE"
    THEN SdConnection_issue_idle_warning(s, k)
    ELSE s

(***************************************************************************)
(* paf/sd.py: Client.connect, publish, unpublish and the subscriptions.    *)
(* An operation that can raise returns Ok(state) or Raise(state, error).   *)
(***************************************************************************)
\* Connection.__init__ of the engine connection of client k
SdConnection_init(s, k) ==
    SdConnection_install_idle_warning_timer(
        [s EXCEPT !.clients[k].active = <<SdConnection>>], k)

\* ServiceDiscovery.client_connect with a Client.connect that takes any user
ServiceDiscovery_client_connect_any_user(s, client_id, user_id) ==
    IF client_id \in DOMAIN s.clients /\ Client_is_connected(s.clients[client_id])
    THEN Raise(SdConnection_check_idle(s, client_id), "AlreadyExistsError")
    ELSE IF ResourceManager_allocate(s, user_id, "CLIENT").err # ""
    THEN ResourceManager_allocate(s, user_id, "CLIENT")
    ELSE Ok(SdConnection_init(
                [ResourceManager_allocate(s, user_id, "CLIENT").s
                     EXCEPT !.clients = Put(@, client_id,
                                            IF client_id \in DOMAIN s.clients
                                            THEN s.clients[client_id]
                                            ELSE Client(user_id))],
                client_id))

\* ServiceDiscovery.client_connect with a Client.connect that does not look
\* for an active connection
ServiceDiscovery_client_connect_again(s, client_id, user_id) ==
    IF client_id \in DOMAIN s.clients /\ s.clients[client_id].user_id # user_id
    THEN Raise(s, "PermissionError")
    ELSE Ok(SdConnection_init(
                [s EXCEPT !.clients = Put(@, client_id, Client(user_id)),
                          !.consumers = Put(@, user_id, resources(1, 0, 0))],
                client_id))

\* ServiceDiscovery.client_connect and Client.connect
ServiceDiscovery_client_connect(s, client_id, user_id) ==
    LET client == IF client_id \in DOMAIN s.clients THEN s.clients[client_id]
                  ELSE Client(user_id)
    IN IF Client_is_connected(client)
       THEN Raise(SdConnection_check_idle(s, client_id), "AlreadyExistsError")
       ELSE IF client.user_id # user_id THEN Raise(s, "PermissionError")
       ELSE LET r == ResourceManager_allocate(s, client.user_id, "CLIENT") IN
            IF r.err # "" THEN r
            ELSE Ok(SdConnection_init([r.s EXCEPT !.clients = Put(@, client_id, client)],
                                      client_id))

\* Service.check_access
\* Service.check_access letting every user in
Service_check_access_open(cur, user_id) == TRUE

\* Service.check_access
Service_check_access(cur, user_id) == user_id = cur.user_id

\* a Client.capture_service that leaves the service with its holder
Client_capture_service_without_move(s, k, service_id) == s

\* a capture_service that leaves the service with its former holder as well
Client_capture_service_without_remove(s, k, service_id) ==
    [s EXCEPT !.clients[k].active[1].services =
                  IF Contains(@, service_id) THEN @ ELSE Append(@, service_id)]

\* Client.capture_service: client k takes the service from its holder
Client_capture_service(s, k, service_id) ==
    LET victim_id == DB_get_service(s, service_id).client_id IN
    IF victim_id \notin DOMAIN s.clients THEN Crash(s, "AttributeError")
    ELSE LET victim_client == s.clients[victim_id]
             i == Client_get_service_connection(victim_client, service_id)
         IN IF i = 0 THEN Crash(s, "AttributeError")
            ELSE LET ec == Client_get_connections(victim_client)[i]
                     ec1 == [ec EXCEPT !.services = Remove(@, service_id)]
                     s1 == [s EXCEPT !.clients[victim_id] =
                                         Client_set_connection(victim_client, i, ec1)]
                 IN [s1 EXCEPT !.clients[k].active[1].services =
                                   IF Contains(@, service_id) THEN @
                                   ELSE Append(@, service_id)]

\* Client.remove_service
Client_remove_service(s, k, service_id) ==
    LET cl == s.clients[k]
        i == Client_get_service_connection(cl, service_id)
    IN IF i = 0 THEN Crash(s, "AttributeError")
       ELSE LET ec == [Client_get_connections(cl)[i] EXCEPT !.services = Remove(@, service_id)]
                cl1 == Client_set_connection(cl, i, ec)
                s1 == ResourceManager_deallocate([s EXCEPT !.clients[k] = cl1],
                                                 cl.user_id, "SERVICE")
                cl2 == IF SdConnection_is_stale(ec) THEN Client_remove_connection(cl1, i)
                       ELSE cl1
                s2 == IF Client_is_stale(cl2) THEN [s1 EXCEPT !.clients = Del(@, k)]
                      ELSE [s1 EXCEPT !.clients[k] = cl2]
                prev == DB_get_service(s, service_id)
            IN Service_remove(DB_remove_service(s2, service_id), service_id, prev)

\* Client.publish, the generation of the request is the stored one; with
\* a same-generation check that compares the props only
Client_publish_same_generation_ttl_unchecked(s, k, service_id, service_props, ttl) ==
    LET service == DB_get_service(s, service_id) IN
    IF service_props # service.props
    THEN Raise(s, "SameGenerationButDifferentError")
    ELSE IF service.client_id # k
    THEN Ok(Service_modify(Client_capture_service(s, k, service_id), service_id,
                [service EXCEPT !.orphan_since = None, !.client_id = k]))
    ELSE IF Generation_is_orphan(service)
    THEN Ok(Service_modify(s, service_id, [service EXCEPT !.orphan_since = None]))
    ELSE Ok(s)

\* Client.publish, the generation of the request is the stored one; with
\* a commit of the service also when its owner republishes it unchanged
Client_publish_same_generation_committing(s, k, service_id, service_props, ttl) ==
    LET service == DB_get_service(s, service_id) IN
    IF service_props # service.props \/ ttl # service.ttl
    THEN Raise(s, "SameGenerationButDifferentError")
    ELSE IF service.client_id # k
    THEN Ok(Service_modify(Client_capture_service(s, k, service_id), service_id,
                [service EXCEPT !.orphan_since = None, !.client_id = k]))
    ELSE Ok(Service_modify(s, service_id, [service EXCEPT !.orphan_since = None]))

\* Client.publish, the generation of the request is the stored one
Client_publish_same_generation(s, k, service_id, service_props, ttl) ==
    LET service == DB_get_service(s, service_id) IN
    IF service_props # service.props \/ ttl # service.ttl
    THEN Raise(s, "SameGenerationButDifferentError")
    ELSE IF service.client_id # k
    THEN Ok(Service_modify(Client_capture_service(s, k, service_id), service_id,
                [service EXCEPT !.orphan_since = None, !.client_id = k]))
    ELSE IF Generation_is_orphan(service)
    THEN Ok(Service_modify(s, service_id, [service EXCEPT !.orphan_since = None]))
    ELSE Ok(s)

\* Client.publish, the generation of the request is higher than the stored one
Client_publish_higher_generation(s, k, service_id, generation, service_props, ttl) ==
    LET service == DB_get_service(s, service_id)
        s1 == IF k # service.client_id THEN Client_capture_service(s, k, service_id) ELSE s
    IN Ok(Service_modify(s1, service_id,
              Generation(generation, service_props, ttl, None, k, s.clients[k].user_id)))

\* Client.publish of a service that does not exist
Client_publish_new(s, k, service_id, generation, service_props, ttl) ==
    LET user_id == s.clients[k].user_id
        r == ResourceManager_allocate(s, user_id, "SERVICE")
    IN IF r.err # "" THEN r
       ELSE LET ng == Generation(generation, service_props, ttl, None, k, user_id)
                s1 == [r.s EXCEPT !.clients[k].active[1].services = Append(@, service_id)]
                s2 == DB_add_service(s1, service_id, ng)
            IN Ok(service_changed(s2, "ADDED", service_id, NoGeneration, ng))

\* what Client.publish does once the service is stored: self.active()
Client_publish_finish(r, k) == IF r.err # "" THEN r ELSE Ok(Client_active(r.s, k))

\* Client.publish taking every generation but the stored one for a higher one
Client_publish_unordered(s, k, service_id, generation, service_props, ttl) ==
    IF DB_has_service(s, service_id)
    THEN LET service == DB_get_service(s, service_id) IN
         IF ~Service_check_access(service, s.clients[k].user_id)
         THEN Raise(s, "PermissionError")
         ELSE IF generation = service.generation
         THEN Client_publish_finish(
                  Client_publish_same_generation(s, k, service_id, service_props, ttl), k)
         ELSE Client_publish_finish(
                  Client_publish_higher_generation(s, k, service_id, generation,
                                                   service_props, ttl), k)
    ELSE Client_publish_finish(
             Client_publish_new(s, k, service_id, generation, service_props, ttl), k)

\* Client.publish
Client_publish(s, k, service_id, generation, service_props, ttl) ==
    IF DB_has_service(s, service_id)
    THEN LET service == DB_get_service(s, service_id) IN
         IF ~Service_check_access(service, s.clients[k].user_id)
         THEN Raise(s, "PermissionError")
         ELSE IF generation = service.generation
         THEN Client_publish_finish(
                  Client_publish_same_generation(s, k, service_id, service_props, ttl), k)
         ELSE IF generation > service.generation
         THEN Client_publish_finish(
                  Client_publish_higher_generation(s, k, service_id, generation,
                                                   service_props, ttl), k)
         ELSE Raise(s, "GenerationError")
    ELSE Client_publish_finish(
             Client_publish_new(s, k, service_id, generation, service_props, ttl), k)

\* Client.unpublish removing the service as it is, without taking it over
Client_unpublish_without_takeover(s, k, service_id) ==
    IF ~DB_has_service(s, service_id) THEN Raise(s, "NotFoundError")
    ELSE IF ~Service_check_access(DB_get_service(s, service_id), s.clients[k].user_id)
    THEN Raise(s, "PermissionError")
    ELSE IF DB_get_service(s, service_id).client_id # k
    THEN Ok(Client_active(
                Client_remove_service(Client_capture_service(s, k, service_id), k, service_id),
                k))
    ELSE Ok(Client_active(Client_remove_service(s, k, service_id), k))

\* Client.unpublish
Client_unpublish(s, k, service_id) ==
    IF ~DB_has_service(s, service_id) THEN Raise(s, "NotFoundError")
    ELSE LET service == DB_get_service(s, service_id)
             new_owner == service.client_id # k
         IN IF ~Service_check_access(service, s.clients[k].user_id)
            THEN Raise(s, "PermissionError")
            ELSE LET removed(s3) ==
                         IF s3.crash # "" THEN Ok(s3) ELSE Ok(Client_active(s3, k))
                 IN removed(Client_remove_service(
                                IF new_owner \/ Generation_is_orphan(service)
                                THEN Service_modify(
                                         IF new_owner
                                         THEN Client_capture_service(s, k, service_id)
                                         ELSE s,
                                         service_id,
                                         [service EXCEPT !.orphan_since = None,
                                                         !.client_id = k])
                                ELSE s,
                                k, service_id))

\* ServiceDiscovery.publish and unpublish, after _get_connected_client
ServiceDiscovery_publish(s, client_id, service_id, generation, service_props, ttl) ==
    IF client_id \notin DOMAIN s.clients THEN Raise(s, "NotFoundError")
    ELSE IF ~Client_is_connected(s.clients[client_id]) THEN Ok(Crash(s, "AssertionError"))
    ELSE Client_publish(s, client_id, service_id, generation, service_props, ttl)

ServiceDiscovery_unpublish(s, client_id, service_id) ==
    IF client_id \notin DOMAIN s.clients THEN Raise(s, "NotFoundError")
    ELSE IF ~Client_is_connected(s.clients[client_id]) THEN Ok(Crash(s, "AssertionError"))
    ELSE Client_unpublish(s, client_id, service_id)

\* ServiceDiscovery.purge_orphan and Client.purge_orphan
ServiceDiscovery_purge_orphan(s, service_id) ==
    IF ~DB_has_service(s, service_id) THEN Crash(s, "AttributeError")
    ELSE LET client_id == DB_get_service(s, service_id).client_id IN
         IF client_id \notin DOMAIN s.clients THEN Crash(s, "AttributeError")
         ELSE Client_remove_service(s, client_id, service_id)

\* ServiceDiscovery.orphan_timeout, the handler of Timer("orphan", service_id, _)
ServiceDiscovery_orphan_timeout(s, service_id) ==
    IF service_id \notin DOMAIN s.orphan_timers THEN Crash(s, "KeyError")
    ELSE ServiceDiscovery_purge_orphan([s EXCEPT !.orphan_timers = Del(@, service_id)],
                                       service_id)

\* ServiceDiscovery.create_subscription and Client.create_subscription;
\* match_cb is the transport connection whose subscription_triggered is bound
ServiceDiscovery_create_subscription(s, client_id, sub_id, filter, match_cb) ==
    IF client_id \notin DOMAIN s.clients THEN Raise(s, "NotFoundError")
    ELSE IF DB_has_subscription(s, sub_id) THEN Raise(s, "AlreadyExistsError")
    ELSE LET user_id == s.clients[client_id].user_id
             r == ResourceManager_allocate(s, user_id, "SUBSCRIPTION")
         IN IF r.err # "" THEN r
            ELSE IF ~Client_is_connected(s.clients[client_id])
            THEN Ok(Crash(s, "AttributeError"))
            ELSE Ok([r.s EXCEPT
                       !.clients[client_id].active[1].subscriptions = Append(@, sub_id),
                       !.subscriptions = Append(@,
                           Subscription(sub_id, filter, client_id, user_id, match_cb))])

\* the replay of a subscription that leaves the orphans out
RECURSIVE replay_services_without_orphans(_, _, _)
replay_services_without_orphans(s, sub, services) ==
    IF services = <<>> THEN s
    ELSE replay_services_without_orphans(
             IF Generation_is_orphan(Head(services).cur) THEN s
             ELSE Subscription_notify(s, sub, "ADDED", Head(services).service_id,
                                      NoGeneration, Head(services).cur),
             sub, Tail(services))

RECURSIVE replay_services(_, _, _)
replay_services(s, sub, services) ==
    IF services = <<>> THEN s
    ELSE replay_services(
             Subscription_notify(s, sub, "ADDED", Head(services).service_id,
                                 NoGeneration, Head(services).cur),
             sub, Tail(services))

\* ServiceDiscovery.activate_subscription and Client.activate_subscription
ServiceDiscovery_activate_subscription(s, client_id, sub_id) ==
    IF client_id \notin DOMAIN s.clients THEN Crash(s, "KeyError")
    ELSE IF ~Client_is_connected(s.clients[client_id])
            \/ ~Contains(s.clients[client_id].active[1].subscriptions, sub_id)
    THEN Crash(s, "AttributeError")
    ELSE replay_services(s, DB_get_subscription(s, sub_id), s.services)

\* Subscription.check_access
Subscription_check_access(sub, client_id) == client_id = sub.client_id

\* ServiceDiscovery.unsubscribe and Client.unsubscribe
ServiceDiscovery_unsubscribe(s, client_id, sub_id) ==
    IF client_id \notin DOMAIN s.clients THEN Raise(s, "NotFoundError")
    ELSE IF ~DB_has_subscription(s, sub_id) THEN Raise(s, "NotFoundError")
    ELSE LET sub == DB_get_subscription(s, sub_id) IN
         IF ~Subscription_check_access(sub, client_id) THEN Raise(s, "PermissionError")
         ELSE Ok(Client_remove_subscription(s, client_id, sub))

(***************************************************************************)
(* paf/server.py: Transaction.  s.conns[c].tas is Connection.tas, a dict   *)
(* from transaction id to the command and the state of the transaction.    *)
(***************************************************************************)
InteractionType(cmd) ==
    IF cmd \in {"hello", "publish", "unpublish", "unsubscribe", "ping"} THEN "SINGLE_RESPONSE"
    ELSE IF cmd = "track" THEN "TWO_WAY"
    ELSE "MULTI_RESPONSE"

\* Connection.ta_terminated, the termination callback of every transaction
Connection_ta_terminated(s, c, ta_id) ==
    IF ta_id \notin DOMAIN s.conns[c].tas THEN Crash(s, "KeyError")
    ELSE [s EXCEPT !.conns[c].tas = Del(@, ta_id)]

\* a Transaction.complete that does not terminate the transaction
Transaction_complete_without_terminate(s, c, ta_id, args) ==
    IF ta_id \notin DOMAIN s.conns[c].tas THEN Crash(s, "KeyError")
    ELSE Connection_respond(s, c, Message(s.conns[c].tas[ta_id].cmd, ta_id, "complete", args))

\* Transaction.complete with Connection.respond of the message it returns
Transaction_complete(s, c, ta_id, args) ==
    IF ta_id \notin DOMAIN s.conns[c].tas THEN Crash(s, "KeyError")
    ELSE LET ta == s.conns[c].tas[ta_id] IN
         IF ta.state # (IF InteractionType(ta.cmd) = "SINGLE_RESPONSE"
                        THEN "REQUESTED" ELSE "ACCEPTED")
         THEN Crash(s, "AssertionError")
         ELSE Connection_respond(Connection_ta_terminated(s, c, ta_id), c,
                                 Message(ta.cmd, ta_id, "complete", args))

Transaction_fail(s, c, ta_id, fail_reason) ==
    IF ta_id \notin DOMAIN s.conns[c].tas THEN Crash(s, "KeyError")
    ELSE LET ta == s.conns[c].tas[ta_id] IN
         IF ta.state = "IDLE" THEN Crash(s, "AssertionError")
         ELSE Connection_respond(Connection_ta_terminated(s, c, ta_id), c,
                                 Message(ta.cmd, ta_id, "fail",
                                         [fail_reason |-> fail_reason]))

Transaction_accept(s, c, ta_id) ==
    LET ta == s.conns[c].tas[ta_id] IN
    IF InteractionType(ta.cmd) = "SINGLE_RESPONSE" THEN Crash(s, "AssertionError")
    ELSE Connection_respond([s EXCEPT !.conns[c].tas[ta_id].state = "ACCEPTED"], c,
                            Message(ta.cmd, ta_id, "accept", NoArgs))

Transaction_notify(s, c, ta_id, args) ==
    LET ta == s.conns[c].tas[ta_id] IN
    IF InteractionType(ta.cmd) = "SINGLE_RESPONSE" THEN Crash(s, "AssertionError")
    ELSE Connection_respond(s, c, Message(ta.cmd, ta_id, "notify", args))

(***************************************************************************)
(* paf/server.py: the request handlers of Connection.                      *)
(***************************************************************************)
\* get_highest_allowed answering with the highest version of the client
ProtoVersionLimitConf_get_highest_allowed_of_client(version_min, version_max, client_version_min, client_version_max) ==
    IF Max(client_version_min, version_min) <= Min(client_version_max, version_max)
    THEN client_version_max ELSE None

\* ProtoVersionLimitConf.get_highest_allowed of paf/conf.py, of a server
\* configured with the range version_min..version_max
ProtoVersionLimitConf_get_highest_allowed(version_min, version_max, client_version_min, client_version_max) ==
    LET max_version == Min(client_version_max, version_max)
        min_version == Max(client_version_min, version_min)
    IN IF min_version <= max_version THEN max_version ELSE None

\* get_highest_allowed of the default ProtoVersionLimitConf
get_highest_allowed(client_version_min, client_version_max) ==
    ProtoVersionLimitConf_get_highest_allowed(MIN_VERSION, MAX_VERSION,
                                              client_version_min, client_version_max)

\* Server.conn_handshake_completed
Server_conn_handshake_completed(s, c) ==
    IF c \notin s.clientless_connections THEN Crash(s, "KeyError")
    ELSE [s EXCEPT !.clientless_connections = @ \ {c},
                   !.client_connections = Put(@, s.conns[c].client_id, c)]

Connection_hello_request(s, c, ta_id, client_id, min_version, max_version) ==
    IF s.conns[c].client_id # None /\ s.conns[c].client_id # client_id
    THEN Crash(s, "AttributeError")
    ELSE IF s.conns[c].client_id # None /\ s.conns[c].handshaked
    THEN Transaction_complete(s, c, ta_id, [proto_version |-> s.conns[c].proto_version])
    ELSE
    LET user_id == determine_user_id(s, c)
        proto_version == get_highest_allowed(min_version, max_version)
        s1 == [s EXCEPT !.conns[c].client_id = client_id,
                        !.conns[c].proto_version = proto_version]
    IN IF proto_version = None
       THEN Transaction_fail(s1, c, ta_id, "unsupported-protocol-version")
       ELSE LET answer(r) ==
                    IF r.s.crash # "" THEN r.s
                    ELSE IF r.err = "AlreadyExistsError"
                    THEN Transaction_fail(r.s, c, ta_id, "client-id-exists")
                    ELSE IF r.err = "PermissionError"
                    THEN Transaction_fail(r.s, c, ta_id, "permission-denied")
                    ELSE IF r.err = "ResourceError"
                    THEN Transaction_fail(r.s, c, ta_id, "insufficient-resources")
                    ELSE Transaction_complete(
                             Server_conn_handshake_completed(
                                 [r.s EXCEPT !.conns[c].handshaked = TRUE], c),
                             c, ta_id, [proto_version |-> proto_version])
            IN answer(ServiceDiscovery_client_connect(s1, client_id, user_id))

Connection_track_request(s, c, ta_id) ==
    IF Connection_is_tracked(s, c) THEN Transaction_fail(s, c, ta_id, "track-exists")
    ELSE Transaction_accept([s EXCEPT !.conns[c].track_ta_id = ta_id], c, ta_id)

Connection_track_inform(s, c, ta_id, track_type) ==
    IF track_type = "query"
    THEN Transaction_notify(s, c, ta_id, [track_type |-> "reply"])
    ELSE IF track_type = "reply" /\ s.conns[c].track_query_ts # None
    THEN [s EXCEPT !.conns[c].track_query_ts = None]
    ELSE Crash(s, "TypeError")

Connection_subscribe_request(s, c, ta_id, sub_id, filter) ==
    IF filter = Malformed THEN Transaction_fail(s, c, ta_id, "invalid-filter-syntax")
    ELSE LET r == ServiceDiscovery_create_subscription(s, s.conns[c].client_id, sub_id,
                                                       filter, c)
         IN IF r.s.crash # "" THEN r.s
            ELSE IF r.err = "AlreadyExistsError"
            THEN Transaction_fail(r.s, c, ta_id, "subscription-id-exists")
            ELSE IF r.err = "ResourceError"
            THEN Transaction_fail(r.s, c, ta_id, "insufficient-resources")
            ELSE IF r.err # "" THEN Crash(r.s, r.err)
            ELSE ServiceDiscovery_activate_subscription(
                     Transaction_accept([r.s EXCEPT !.conns[c].sub_tas = Put(@, sub_id, ta_id)],
                                        c, ta_id),
                     s.conns[c].client_id, sub_id)

\* unsubscribe_request completing the unsubscribe transaction before the
\* subscribe transaction
Connection_unsubscribe_request_first(s, c, ta_id, sub_id) ==
    LET r == ServiceDiscovery_unsubscribe(s, s.conns[c].client_id, sub_id) IN
    IF r.s.crash # "" THEN r.s
    ELSE IF r.err = "PermissionError" THEN Transaction_fail(r.s, c, ta_id, "permission-denied")
    ELSE IF r.err = "NotFoundError"
    THEN Transaction_fail(r.s, c, ta_id, "non-existent-subscription-id")
    ELSE IF sub_id \notin DOMAIN r.s.conns[c].sub_tas THEN Crash(r.s, "KeyError")
    ELSE LET sub_ta == r.s.conns[c].sub_tas[sub_id]
             s1 == [r.s EXCEPT !.conns[c].sub_tas = Del(@, sub_id)]
             s2 == Transaction_complete(s1, c, ta_id, NoArgs)
         IN IF s2.crash # "" THEN s2 ELSE Transaction_complete(s2, c, sub_ta, NoArgs)

Connection_unsubscribe_request(s, c, ta_id, sub_id) ==
    LET r == ServiceDiscovery_unsubscribe(s, s.conns[c].client_id, sub_id) IN
    IF r.s.crash # "" THEN r.s
    ELSE IF r.err = "PermissionError" THEN Transaction_fail(r.s, c, ta_id, "permission-denied")
    ELSE IF r.err = "NotFoundError"
    THEN Transaction_fail(r.s, c, ta_id, "non-existent-subscription-id")
    ELSE IF sub_id \notin DOMAIN r.s.conns[c].sub_tas THEN Crash(r.s, "KeyError")
    ELSE LET sub_ta == r.s.conns[c].sub_tas[sub_id]
             s1 == [r.s EXCEPT !.conns[c].sub_tas = Del(@, sub_id)]
             s2 == Transaction_complete(s1, c, sub_ta, NoArgs)
         IN IF s2.crash # "" THEN s2 ELSE Transaction_complete(s2, c, ta_id, NoArgs)

RECURSIVE notify_services(_, _, _, _)
notify_services(s, c, ta_id, services) ==
    IF services = <<>> THEN s
    ELSE LET e == Head(services) IN
         notify_services(
             Transaction_notify(s, c, ta_id,
                 [service_id |-> e.service_id, generation |-> e.cur.generation,
                  service_props |-> e.cur.props, ttl |-> e.cur.ttl,
                  client_id |-> e.cur.client_id, orphan_since |-> e.cur.orphan_since]),
             c, ta_id, Tail(services))

Connection_services_request(s, c, ta_id, filter) ==
    IF filter = Malformed THEN Transaction_fail(s, c, ta_id, "invalid-filter-syntax")
    ELSE LET matching == SelectSeq(s.services,
                 LAMBDA e : filter.op = "none" \/ Filter_match(filter, e.cur.props))
         IN Transaction_complete(
                notify_services(Transaction_accept(s, c, ta_id), c, ta_id, matching),
                c, ta_id, NoArgs)

Connection_publish_request(s, c, ta_id, service_id, generation, service_props, ttl) ==
    LET answer(r) ==
            IF r.s.crash # "" THEN r.s
            ELSE IF r.err = "" THEN Transaction_complete(r.s, c, ta_id, NoArgs)
            ELSE IF r.err = "PermissionError"
            THEN Transaction_fail(r.s, c, ta_id, "permission-denied")
            ELSE IF r.err = "ResourceError"
            THEN Transaction_fail(r.s, c, ta_id, "insufficient-resources")
            ELSE IF r.err = "GenerationError"
            THEN Transaction_fail(r.s, c, ta_id, "old-generation")
            ELSE IF r.err = "SameGenerationButDifferentError"
            THEN Transaction_fail(r.s, c, ta_id, "same-generation-but-different")
            ELSE Crash(r.s, r.err)
    IN answer(ServiceDiscovery_publish(s, s.conns[c].client_id, service_id, generation,
                                       service_props, ttl))

Connection_unpublish_request(s, c, ta_id, service_id) ==
    LET answer(r) ==
            IF r.s.crash # "" THEN r.s
            ELSE IF r.err = "" THEN Transaction_complete(r.s, c, ta_id, NoArgs)
            ELSE IF r.err = "PermissionError"
            THEN Transaction_fail(r.s, c, ta_id, "permission-denied")
            ELSE IF r.err = "NotFoundError"
            THEN Transaction_fail(r.s, c, ta_id, "non-existent-service-id")
            ELSE Crash(r.s, r.err)
    IN answer(ServiceDiscovery_unpublish(s, s.conns[c].client_id, service_id))

Connection_ping_request(s, c, ta_id) == Transaction_complete(s, c, ta_id, NoArgs)

(***************************************************************************)
(* paf/server.py: Connection.process.  A wire message is the record        *)
(* Message.parse makes of it, or Junk for one it rejects.                  *)
(***************************************************************************)
Junk == Message("", 0, "", NoArgs)

\* lookup_type of paf/proto.py: track is registered for version 3 only
lookup_type(proto_version, ta_cmd) ==
    IF ta_cmd = "track" /\ proto_version # None /\ proto_version < 3
    THEN "ProtocolError" ELSE ""

Message_parse(proto_version, in_wire_msg) ==
    IF in_wire_msg = Junk THEN "ProtocolError"
    ELSE lookup_type(proto_version, in_wire_msg.ta_cmd)

\* Transaction.message: the new state of the transaction, or the error
Transaction_message(state, in_msg) ==
    IF in_msg.msg_type \notin {"request", "inform"} THEN "ProtocolError"
    ELSE IF in_msg.msg_type = "request"
    THEN IF state = "ACCEPTED" THEN "ProtocolError"
         ELSE IF state # "IDLE" THEN "AssertionError"
         ELSE "REQUESTED"
    ELSE IF state = "IDLE" THEN "ProtocolError"
         ELSE IF state # "ACCEPTED" THEN "AssertionError"
         ELSE "ACCEPTED"

\* Connection.invoke_handler
Connection_invoke_handler(s, c, in_msg) ==
    LET a == in_msg.args
        ta_id == in_msg.ta_id
    IN IF in_msg.msg_type = "inform"
       THEN IF in_msg.ta_cmd = "track" THEN Connection_track_inform(s, c, ta_id, a.track_type)
            ELSE Crash(s, "AttributeError")
       ELSE IF in_msg.ta_cmd = "hello"
       THEN Connection_hello_request(s, c, ta_id, a.client_id, a.protocol_minimum_version,
                                     a.protocol_maximum_version)
       ELSE IF in_msg.ta_cmd = "publish"
       THEN Connection_publish_request(s, c, ta_id, a.service_id, a.generation,
                                       a.service_props, a.ttl)
       ELSE IF in_msg.ta_cmd = "unpublish"
       THEN Connection_unpublish_request(s, c, ta_id, a.service_id)
       ELSE IF in_msg.ta_cmd = "subscribe"
       THEN Connection_subscribe_request(s, c, ta_id, a.subscription_id, a.filter)
       ELSE IF in_msg.ta_cmd = "unsubscribe"
       THEN Connection_unsubscribe_request(s, c, ta_id, a.subscription_id)
       ELSE IF in_msg.ta_cmd = "services"
       THEN Connection_services_request(s, c, ta_id, a.filter)
       ELSE IF in_msg.ta_cmd = "track" THEN Connection_track_request(s, c, ta_id)
       ELSE IF in_msg.ta_cmd = "ping" THEN Connection_ping_request(s, c, ta_id)
       ELSE Crash(s, "AttributeError")

\* Connection.process invoking the handler of a request whether or not the
\* handshake has completed
Connection_process_without_handshake(s, c, in_wire_msg) ==
    IF Message_parse(s.conns[c].proto_version, in_wire_msg) # ""
    THEN Raise(s, "ProtocolError")
    ELSE IF in_wire_msg.ta_id \in DOMAIN s.conns[c].tas \/ in_wire_msg.msg_type # "request"
    THEN Raise(s, "ProtocolError")
    ELSE Ok(Connection_invoke_handler(
                [s EXCEPT !.conns[c].tas =
                     Put(@, in_wire_msg.ta_id,
                         [cmd |-> in_wire_msg.ta_cmd, state |-> "REQUESTED"])],
                c, in_wire_msg))

Connection_process(s, c, in_wire_msg) ==
    IF Message_parse(s.conns[c].proto_version, in_wire_msg) # ""
    THEN Raise(s, "ProtocolError")
    ELSE
    LET in_msg == in_wire_msg
        known == in_msg.ta_id \in DOMAIN s.conns[c].tas
        ta == IF known THEN s.conns[c].tas[in_msg.ta_id]
              ELSE [cmd |-> in_msg.ta_cmd, state |-> "IDLE"]
        state == Transaction_message(ta.state, in_msg)
        s1 == [s EXCEPT !.conns[c].tas = Put(@, in_msg.ta_id, [ta EXCEPT !.state = state])]
    IN IF state = "ProtocolError" THEN Raise(s, "ProtocolError")
       ELSE IF state = "AssertionError" THEN Ok(Crash(s, "AssertionError"))
       ELSE IF in_msg.ta_cmd = "hello" \/ s.conns[c].handshaked
       THEN LET s2 == IF s.conns[c].handshaked
                      THEN ServiceDiscovery_client_active(s1, s.conns[c].client_id)
                      ELSE s1
            IN IF s2.crash # "" THEN Ok(s2)
               ELSE Ok(Connection_invoke_handler(s2, c, in_msg))
       ELSE Ok(Transaction_fail(s1, c, in_msg.ta_id, "no-hello"))

\* Connection.try_receive of one message, or of the end of the stream
\* (Closed), inside the exception handlers of Connection.activate
Closed == Message("", 0, "closed", NoArgs)

\* a Connection.try_receive under handlers that log a protocol error and
\* keep the connection
Connection_try_receive_keeping(s, c, in_wire_msg) ==
    LET received(r, terminated) ==
            IF in_wire_msg = Closed THEN terminated
            ELSE r.s
    IN received(Connection_process(s, c, in_wire_msg), Connection_terminate(s, c))

Connection_try_receive(s, c, in_wire_msg) ==
    LET received(r, terminated) ==
            IF in_wire_msg = Closed THEN terminated
            ELSE IF r.s.crash # "" THEN r.s
            ELSE IF r.err # "" THEN terminated
            ELSE r.s
    IN received(Connection_process(s, c, in_wire_msg), Connection_terminate(s, c))

\* a try_send loop that puts a message the socket refuses at the end of
\* the queue
RECURSIVE Connection_try_send_loop_append(_, _, _, _, _)
Connection_try_send_loop_append(out_wire_msgs, sent, sends, i, n) ==
    IF i > n THEN [out_wire_msgs |-> out_wire_msgs, sent |-> sent]
    ELSE IF sends[i]
    THEN Connection_try_send_loop_append(Tail(out_wire_msgs),
                                         Append(sent, Head(out_wire_msgs)), sends, i + 1, n)
    ELSE Connection_try_send_loop_append(Append(Tail(out_wire_msgs), Head(out_wire_msgs)),
                                         sent, sends, i + 1, n)

\* the loop of Connection.try_send from its iteration i of n: sends[i] is
\* whether the socket takes the message of iteration i or answers EAGAIN;
\* sent is what the socket has taken
RECURSIVE Connection_try_send_loop(_, _, _, _, _)
Connection_try_send_loop(out_wire_msgs, sent, sends, i, n) ==
    IF i > n THEN [out_wire_msgs |-> out_wire_msgs, sent |-> sent]
    ELSE IF sends[i]
    THEN Connection_try_send_loop(Tail(out_wire_msgs), Append(sent, Head(out_wire_msgs)),
                                  sends, i + 1, n)
    ELSE Connection_try_send_loop(<<Head(out_wire_msgs)>> \o Tail(out_wire_msgs), sent,
                                  sends, i + 1, n)

\* Connection.try_send when the socket takes n messages before EAGAIN
Connection_try_send(s, c, n) ==
    [s EXCEPT !.conns[c].out_wire_msgs = SubSeq(@, n + 1, Len(@))]

(***************************************************************************)
(* paf/server.py: Server, its janitor and its listening socket.            *)
(***************************************************************************)
MAX_SEND_BATCH == 64

MAX_ACCEPT_BATCH == 16

SOFT_OUT_WIRE_LIMIT == 128

CLEAN_INTERVAL == 1

MAX_HANDSHAKE_TIME == 2

\* a Connection.receivable without the soft limit of the outbound queue
Connection_receivable_always(s, c) == TRUE

Connection_receivable(s, c) == Len(s.conns[c].out_wire_msgs) < SOFT_OUT_WIRE_LIMIT

Server_schedule_clean_out(s) ==
    IF s.clientless_connections # {} /\ s.clean_out_timer = None
    THEN [TimerManager_add(s, Timer("clean", 0, s.now + CLEAN_INTERVAL))
             EXCEPT !.clean_out_timer = s.now + CLEAN_INTERVAL]
    ELSE s

\* the second loop of clean_out_connections, over the list `failed`
RECURSIVE clean_out_failed(_, _)
clean_out_failed(s, failed) ==
    IF failed = {} \/ s.crash # "" THEN s
    ELSE LET c == CHOOSE x \in failed : \A y \in failed : x <= y IN
         clean_out_failed(Connection_terminate(s, c), failed \ {c})

Server_clean_out_connections(s) ==
    LET failed == {c \in s.clientless_connections :
                      /\ s.conns[c].client_id = None \/ s.conns[c].client_id \notin DOMAIN s.clients
                      /\ s.now - s.conns[c].connect_time > MAX_HANDSHAKE_TIME}
    IN clean_out_failed(s, failed)

Server_clean_out_handler(s) ==
    LET cleaned(s1) == IF s1.crash # "" THEN s1 ELSE Server_schedule_clean_out(s1) IN
    cleaned(Server_clean_out_connections([s EXCEPT !.clean_out_timer = None]))

Server_update_source(s) == [s EXCEPT !.acceptable = ~Server_max_clients_reached(s)]

\* the number of accept() calls of one Server.sock_activate
Server_batch_size(s) ==
    IF Server_client_capacity_left(s) = None
       \/ Server_client_capacity_left(s) > MAX_ACCEPT_BATCH
    THEN MAX_ACCEPT_BATCH ELSE Server_client_capacity_left(s)

\* Server.sock_activate when one connection, c from conn_addr, is waiting on
\* the listening socket: a second accept(), if the batch has one, raises
\* EAGAIN
Server_sock_activate(s, c, conn_addr) ==
    IF Server_max_clients_reached(s) THEN [s EXCEPT !.acceptable = FALSE]
    ELSE LET s1 == Server_update_source(s)
             s2 == [s1 EXCEPT !.conns[c] = [ClosedConnection EXCEPT !.open = TRUE,
                                                                  !.connect_time = s.now,
                                                                  !.conn_addr = conn_addr],
                              !.clientless_connections = @ \cup {c}]
         IN IF Server_batch_size(s) > 1
            THEN Server_update_source(Server_schedule_clean_out(s2))
            ELSE Server_schedule_clean_out(s2)

\* the handler of a timer, by its kind
Timer_handler(s, timer) ==
    IF timer.kind = "orphan" THEN ServiceDiscovery_orphan_timeout(s, timer.id)
    ELSE IF timer.kind = "idle" THEN SdConnection_idle_timer_fired(s, timer.id)
    ELSE Server_clean_out_handler(s)

\* a TimerManager.process that fires the first due timer only
TimerManager_process_first(s) ==
    IF s.crash # "" \/ Len(s.deque) = 0 THEN s
    ELSE IF s.now < s.deque[1].expiration_time THEN s
    ELSE Timer_handler([s EXCEPT !.deque = Tail(@)], s.deque[1])

\* TimerManager.process, run by Server.timer_activate
RECURSIVE TimerManager_process(_)
TimerManager_process(s) ==
    IF s.crash # "" \/ Len(s.deque) = 0 THEN s
    ELSE LET candidate == s.deque[1] IN
         IF s.now < candidate.expiration_time THEN s
         ELSE TimerManager_process(Timer_handler([s EXCEPT !.deque = Tail(@)], candidate))

(***************************************************************************)
(* The state machine.  Each variable is a field of the server process,     *)
(* but ta_id, the transaction id counter of the client of each connection  *)
(* (paf/client.py).  Each action is one callback of the event loop         *)
(* (paf/eventloop.py run).  A connection is numbered in the order the      *)
(* server accepts it and is never reused.  The peers keep reading: a       *)
(* socket with queued output takes it in the next callback.                *)
(***************************************************************************)
VARIABLES now, deque, orphan_timers, clients, services, subscriptions, consumers,
          max_user_resources, max_total_resources, conns, clientless_connections,
          client_connections, clean_out_timer, acceptable, crash, ta_id

vars == <<now, deque, orphan_timers, clients, services, subscriptions, consumers,
          max_user_resources, max_total_resources, conns, clientless_connections,
          client_connections, clean_out_timer, acceptable, crash, ta_id>>

\* the state as the record the operations work on, with the value rnd of
\* random.random() in this callback
St(rnd) ==
    [now |-> now, deque |-> deque, orphan_timers |-> orphan_timers, clients |-> clients,
     services |-> services, subscriptions |-> subscriptions, consumers |-> consumers,
     max_user_resources |-> max_user_resources,
     max_total_resources |-> max_total_resources, conns |-> conns,
     clientless_connections |-> clientless_connections,
     client_connections |-> client_connections, clean_out_timer |-> clean_out_timer,
     acceptable |-> acceptable, crash |-> crash, rnd |-> rnd]

Cur == St(0)

\* the process right after Server.__init__, with resource limits rc
InitialState(rc) ==
    [now |-> 0, deque |-> <<>>, orphan_timers |-> EmptyDict, clients |-> EmptyDict,
     services |-> <<>>, subscriptions |-> <<>>, consumers |-> EmptyDict,
     max_user_resources |-> rc.user, max_total_resources |-> rc.total,
     conns |-> [c \in ConnIds |-> ClosedConnection], clientless_connections |-> {},
     client_connections |-> EmptyDict, clean_out_timer |-> None, acceptable |-> TRUE,
     crash |-> "", rnd |-> 0]

QueuesWithinBound(r) == \A c \in ConnIds : Len(r.conns[c].out_wire_msgs) <= MaxQueue

\* an exception nothing catches ends the process: what is left is the
\* exception and the configuration
Outcome(r) ==
    IF r.crash = "" THEN r
    ELSE [InitialState([user |-> r.max_user_resources, total |-> r.max_total_resources])
             EXCEPT !.crash = r.crash]

\* the callback ran to r; the clients are left with the counters t
Commit(r, t) ==
    LET o == Outcome(r) IN
    /\ QueuesWithinBound(o)
    /\ now' = o.now
    /\ deque' = o.deque
    /\ orphan_timers' = o.orphan_timers
    /\ clients' = o.clients
    /\ services' = o.services
    /\ subscriptions' = o.subscriptions
    /\ consumers' = o.consumers
    /\ max_user_resources' = o.max_user_resources
    /\ max_total_resources' = o.max_total_resources
    /\ conns' = o.conns
    /\ clientless_connections' = o.clientless_connections
    /\ client_connections' = o.client_connections
    /\ clean_out_timer' = o.clean_out_timer
    /\ acceptable' = o.acceptable
    /\ crash' = o.crash
    /\ ta_id' = [c \in ConnIds |->
                    IF r.crash # "" \/ t[c] = None THEN None
                    ELSE t[c]]

\* the requests a client may send in a transaction with id t
HelloRequests(t) ==
    {Message("hello", t, "request",
             [client_id |-> k, protocol_minimum_version |-> 2,
              protocol_maximum_version |-> 3]) : k \in ClientIds}

PublishRequests(t) ==
    {Message("publish", t, "request",
             [service_id |-> x[1], generation |-> x[2], service_props |-> x[3],
              ttl |-> x[4]]) :
         x \in ServiceIds \X Generations \X ServiceProps \X TTLs}

UnpublishRequests(t) ==
    {Message("unpublish", t, "request", [service_id |-> i]) : i \in ServiceIds}

SubscribeRequests(t) ==
    {Message("subscribe", t, "request", [subscription_id |-> x[1], filter |-> x[2]]) :
         x \in SubIds \X SubFilters}

UnsubscribeRequests(t) ==
    {Message("unsubscribe", t, "request", [subscription_id |-> i]) : i \in SubIds}

Requests(t) ==
    HelloRequests(t) \cup PublishRequests(t) \cup UnpublishRequests(t)
    \cup SubscribeRequests(t) \cup UnsubscribeRequests(t)

\* the publishers of the runs change the properties with each generation
PropsOf(generation) == IF generation % 2 = 0 THEN PropsA ELSE PropsB

RunRequests(t) ==
    {m \in Requests(t) :
        m.ta_cmd = "publish" => m.args.service_props = PropsOf(m.args.generation)}

Init ==
    /\ \E rc \in ResourceConfs :
           /\ max_user_resources = rc.user
           /\ max_total_resources = rc.total
    /\ now = 0
    /\ deque = <<>>
    /\ orphan_timers = EmptyDict
    /\ clients = EmptyDict
    /\ services = <<>>
    /\ subscriptions = <<>>
    /\ consumers = EmptyDict
    /\ conns = [c \in ConnIds |-> ClosedConnection]
    /\ clientless_connections = {}
    /\ client_connections = EmptyDict
    /\ clean_out_timer = None
    /\ acceptable = TRUE
    /\ crash = ""
    /\ ta_id = [c \in ConnIds |-> None]

\* the requests the clients of connections 1..n have sent
RECURSIVE NumRequests(_)
NumRequests(n) == IF n = 0 THEN 0 ELSE Max(ta_id[n], 0) + NumRequests(n - 1)

\* some connection has output queued
Pending == \E c \in ConnIds : Len(conns[c].out_wire_msgs) > 0

\* Connection.activate of connection c on input in_wire_msg: try_receive,
\* then try_send of all that is queued
Connection_activate(s, c, in_wire_msg) ==
    LET send(r) ==
            IF r.crash = "" /\ r.conns[c].open
            THEN Connection_try_send(r, c, Min(MAX_SEND_BATCH, Len(r.conns[c].out_wire_msgs)))
            ELSE r
    IN send(Connection_try_receive(s, c, in_wire_msg))

\* Server.sock_activate: the listening socket is readable, the next client
\* has connected from conn_addr (the first one over the ux socket), after
\* the one before it has sent its hello; at the limit of clients the socket
\* stops accepting and the client keeps waiting
Accept(c, conn_addr) ==
    /\ crash = ""
    /\ ~Pending
    /\ acceptable
    /\ ta_id[c] = None
    /\ \A d \in 1..(c - 1) : ta_id[d] >= 1
    /\ NumRequests(NConn) < MaxRequests
    /\ c = 1 => conn_addr = UxAddr
    /\ \E rnd \in JitterChoices :
           Commit(Server_sock_activate(St(rnd), c, conn_addr),
                  IF Server_max_clients_reached(Cur) THEN ta_id ELSE [ta_id EXCEPT ![c] = 0])

\* Connection.activate receiving the next request of the client, which
\* takes its transaction id from next_ta_id and starts with hello, with a
\* client id no greater than the number of the connection
Receive(c, m) ==
    /\ crash = ""
    /\ ~Pending
    /\ conns[c].open
    /\ Connection_receivable(Cur, c)
    /\ m.ta_id = ta_id[c]
    /\ NumRequests(NConn) < MaxRequests
    /\ m.ta_id = 0 => m.ta_cmd = "hello"
    /\ m.ta_cmd = "hello" => m.args.client_id <= c
    /\ \E rnd \in JitterChoices :
           Commit(Connection_activate(St(rnd), c, m), [ta_id EXCEPT ![c] = @ + 1])

\* Connection.activate when the peer has closed the connection
Close(c) ==
    /\ crash = ""
    /\ ~Pending
    /\ conns[c].open
    /\ Connection_receivable(Cur, c)
    /\ \E rnd \in JitterChoices : Commit(Connection_activate(St(rnd), c, Closed), ta_id)

\* Connection.activate with nothing to receive: the socket takes the queue
Send(c) ==
    /\ crash = ""
    /\ conns[c].open
    /\ Connection_sendable(Cur, c)
    /\ Commit(Connection_try_send(Cur, c, Min(MAX_SEND_BATCH, Len(conns[c].out_wire_msgs))),
              ta_id)

TimerDue == Len(deque) > 0 /\ deque[1].expiration_time <= now

\* Server.timer_activate: the timer source fired
TimerActivate ==
    /\ crash = ""
    /\ ~Pending
    /\ TimerDue
    /\ \E rnd \in JitterChoices : Commit(TimerManager_process(St(rnd)), ta_id)

\* time passes; the event loop runs a due timer before it waits
Tick ==
    /\ crash = ""
    /\ ~Pending
    /\ now < MaxTime
    /\ ~TimerDue
    /\ now' = now + 1
    /\ UNCHANGED <<deque, orphan_timers, clients, services, subscriptions, consumers,
                   max_user_resources, max_total_resources, conns,
                   clientless_connections, client_connections, clean_out_timer,
                   acceptable, crash, ta_id>>

Next ==
    \/ \E c \in ConnIds, conn_addr \in {UxAddr, TcpAddr} : Accept(c, conn_addr)
    \/ \E c \in ConnIds, t \in TaIds : \E m \in RunRequests(t) : Receive(c, m)
    \/ \E c \in ConnIds : Close(c)
    \/ \E c \in ConnIds : Send(c)
    \/ TimerActivate
    \/ Tick

Spec == Init /\ [][Next]_vars

(***************************************************************************)
(* Vocabulary of the properties.  A property about a request is stated on  *)
(* every reachable state and every request of the kind: Received(c, m) is  *)
(* the state Connection.try_receive leaves, before the socket takes any    *)
(* output, and Enqueued(r, d) is what the step has put on the queue of d.  *)
(***************************************************************************)
Handshaked(c) == crash = "" /\ conns[c].open /\ conns[c].handshaked

UserOf(c) == clients[conns[c].client_id].user_id

Received(c, in_wire_msg) == Connection_try_receive(Cur, c, in_wire_msg)

Enqueued(r, d) ==
    SubSeq(r.conns[d].out_wire_msgs, Len(conns[d].out_wire_msgs) + 1,
           Len(r.conns[d].out_wire_msgs))

\* the requests the properties range over: one generation and one ttl more
\* than the runs use
ClaimGenerations == 0..(MaxGen + 1)

ClaimTTLs == 1..(MaxTTL + 1)

PublishInputs == ServiceIds \X ClaimGenerations \X ServiceProps \X ClaimTTLs

PublishRequest(t, x) ==
    Message("publish", t, "request",
            [service_id |-> x[1], generation |-> x[2], service_props |-> x[3], ttl |-> x[4]])

UnpublishRequest(t, i) == Message("unpublish", t, "request", [service_id |-> i])

Fail(cmd, t, reason) == Message(cmd, t, "fail", [fail_reason |-> reason])

Complete(cmd, t) == Message(cmd, t, "complete", NoArgs)

\* the stored service with id i (it exists)
Stored(i) == DB_get_service(Cur, i)

OrphanTimers(dq) == SelectSeq(dq, LAMBDA x : x.kind = "orphan")

\* which engine connection holds which services
Holdings(cl) ==
    [k \in DOMAIN cl |->
        [j \in 1..Len(Client_get_connections(cl[k])) |->
            Client_get_connections(cl[k])[j].services]]

\* the step to r left every service, its holder and its orphan timer alone
ServicesUntouched(r) ==
    /\ r.crash = ""
    /\ r.services = services
    /\ r.orphan_timers = orphan_timers
    /\ OrphanTimers(r.deque) = OrphanTimers(deque)
    /\ Holdings(r.clients) = Holdings(clients)
    /\ r.consumers = consumers
    /\ r.subscriptions = subscriptions

\* the step to r, a request of c, put nothing on any queue but the answer
OnlyAnswer(r, c, answer) ==
    /\ Enqueued(r, c) = <<answer>>
    /\ \A d \in ConnIds \ {c} : Enqueued(r, d) = <<>>

C2_Case(c, x) ==
    /\ Handshaked(c)
    /\ DB_has_service(Cur, x[1])
    /\ x[2] < Stored(x[1]).generation

\* C2 as stated: a publish of an existing service with a generation lower
\* than the stored one fails with old-generation, whoever sends it, leaves
\* the service, its holder and its orphan timer unchanged and notifies no
\* subscription.
C2_LowerGenerationFailsOldGeneration ==
    \A c \in ConnIds, x \in PublishInputs :
        C2_Case(c, x) =>
            LET r == Received(c, PublishRequest(ta_id[c], x)) IN
            /\ ServicesUntouched(r)
            /\ OnlyAnswer(r, c, Fail("publish", ta_id[c], "old-generation"))

\* C2, amended: a publish of an existing service by a client of the
\* service's user with a generation lower than the stored one fails with
\* old-generation, leaves the service (generation, props, ttl, owner,
\* orphan state, orphan timer) unchanged and notifies no subscription.
C2_SameUserLowerGenerationFailsOldGeneration ==
    \A c \in ConnIds, x \in PublishInputs :
        C2_Case(c, x) /\ UserOf(c) = Stored(x[1]).user_id =>
            LET r == Received(c, PublishRequest(ta_id[c], x)) IN
            /\ ServicesUntouched(r)
            /\ OnlyAnswer(r, c, Fail("publish", ta_id[c], "old-generation"))

\* a client of the service's user is about to publish a lower generation
\* and gets old-generation for it
C2_Witness ==
    \E c \in ConnIds, x \in PublishInputs :
        /\ C2_Case(c, x)
        /\ UserOf(c) = Stored(x[1]).user_id
        /\ Enqueued(Received(c, PublishRequest(ta_id[c], x)), c)
               = <<Fail("publish", ta_id[c], "old-generation")>>

C3_Case(c, x) ==
    /\ Handshaked(c)
    /\ DB_has_service(Cur, x[1])
    /\ x[2] = Stored(x[1]).generation
    /\ x[3] # Stored(x[1]).props \/ x[4] # Stored(x[1]).ttl

\* C3 as stated: a publish of an existing service with the stored
\* generation but other props or another ttl fails with
\* same-generation-but-different, whoever sends it, leaves the service
\* unchanged and notifies no subscription.
C3_SameGenerationDifferentFails ==
    \A c \in ConnIds, x \in PublishInputs :
        C3_Case(c, x) =>
            LET r == Received(c, PublishRequest(ta_id[c], x)) IN
            /\ ServicesUntouched(r)
            /\ OnlyAnswer(r, c, Fail("publish", ta_id[c], "same-generation-but-different"))

\* C3, amended: a publish of an existing service by a client of the
\* service's user with the stored generation but other props or another ttl
\* fails with same-generation-but-different, leaves the service unchanged
\* (also its owner and orphan state, also when the publisher is another
\* client of that user or the service is an orphan) and notifies no
\* subscription.
C3_SameUserSameGenerationDifferentFails ==
    \A c \in ConnIds, x \in PublishInputs :
        C3_Case(c, x) /\ UserOf(c) = Stored(x[1]).user_id =>
            LET r == Received(c, PublishRequest(ta_id[c], x)) IN
            /\ ServicesUntouched(r)
            /\ OnlyAnswer(r, c, Fail("publish", ta_id[c], "same-generation-but-different"))

\* another client of the service's user is about to publish an orphan with
\* the stored generation and another ttl, and is refused
C3_Witness ==
    \E c \in ConnIds, x \in PublishInputs :
        /\ C3_Case(c, x)
        /\ UserOf(c) = Stored(x[1]).user_id
        /\ conns[c].client_id # Stored(x[1]).client_id
        /\ Stored(x[1]).orphan_since # None
        /\ x[3] = Stored(x[1]).props
        /\ Enqueued(Received(c, PublishRequest(ta_id[c], x)), c)
               = <<Fail("publish", ta_id[c], "same-generation-but-different")>>

C4_Case(c, x) ==
    /\ Handshaked(c)
    /\ DB_has_service(Cur, x[1])
    /\ Stored(x[1]).client_id = conns[c].client_id
    /\ Stored(x[1]).orphan_since = None
    /\ x[2] = Stored(x[1]).generation
    /\ x[3] = Stored(x[1]).props
    /\ x[4] = Stored(x[1]).ttl

\* C4: republishing a service that is no orphan from the client that owns
\* it, with the stored generation, props and ttl, completes, changes no
\* field of any service and notifies no subscription, the first time and
\* again right after it.
C4_OwnerRepublishIsIdempotent ==
    \A c \in ConnIds, x \in PublishInputs :
        C4_Case(c, x) =>
            LET r == Received(c, PublishRequest(ta_id[c], x))
                r2 == Connection_try_receive(r, c, PublishRequest(ta_id[c] + 1, x))
            IN /\ ServicesUntouched(r)
               /\ OnlyAnswer(r, c, Complete("publish", ta_id[c]))
               /\ ServicesUntouched(r2)
               /\ Enqueued(r2, c) = <<Complete("publish", ta_id[c]),
                                      Complete("publish", ta_id[c] + 1)>>
               /\ \A d \in ConnIds \ {c} : Enqueued(r2, d) = <<>>

\* the owner is about to republish its service while a subscription that
\* matches the service is there to be notified
C4_Witness ==
    \E c \in ConnIds, x \in PublishInputs :
        /\ C4_Case(c, x)
        /\ \E j \in 1..Len(subscriptions) :
               Subscription_matches(subscriptions[j], Stored(x[1]).props)
        /\ Enqueued(Received(c, PublishRequest(ta_id[c], x)), c)
               = <<Complete("publish", ta_id[c])>>



\* the filters the properties range over and, written out, the props each
\* of them matches
ClaimFilters == {NoFilter, FilterNameA, FilterNot5}

MatchTable ==
    {<<NoFilter, PropsA>>, <<NoFilter, PropsB>>, <<FilterNameA, PropsA>>,
     <<FilterNot5, PropsB>>}

Matching(filter, props) == <<filter, props>> \in MatchTable

Changes == {"ADDED", "MODIFIED", "REMOVED"}

\* the transaction of a subscription on the connection that holds it
SubTa(sub) == conns[sub.match_cb].sub_tas[sub.sub_id]

Notify(t, match_type, i, g) ==
    Message("subscribe", t, "notify",
            [match_type |-> match_type, service_id |-> i, generation |-> g.generation,
             service_props |-> g.props, ttl |-> g.ttl, client_id |-> g.client_id,
             orphan_since |-> g.orphan_since])

Disappeared(t, i) ==
    Message("subscribe", t, "notify", [match_type |-> "disappeared", service_id |-> i])

\* the notifications a change of service i owes a subscription with the
\* given filter and transaction
Transition(filter, t, change, i, prev, cur) ==
    LET before == change # "ADDED" /\ Matching(filter, prev.props)
        after == change # "REMOVED" /\ Matching(filter, cur.props)
    IN IF change = "ADDED" /\ after THEN <<Notify(t, "appeared", i, cur)>>
       ELSE IF change = "MODIFIED" /\ before /\ after THEN <<Notify(t, "modified", i, cur)>>
       ELSE IF change = "MODIFIED" /\ ~before /\ after THEN <<Notify(t, "appeared", i, cur)>>
       ELSE IF change = "MODIFIED" /\ before /\ ~after THEN <<Disappeared(t, i)>>
       ELSE IF change = "REMOVED" /\ before THEN <<Disappeared(t, i)>>
       ELSE <<>>

\* the notifications about service i the step to r has queued for sub
NotificationsOf(r, sub, i) ==
    SelectSeq(Enqueued(r, sub.match_cb),
              LAMBDA m : /\ m.msg_type = "notify"
                         /\ m.ta_id = SubTa(sub)
                         /\ m.args.service_id = i)

\* the notifications the step to r owes sub for service i, from the service
\* before and after the step; an unpublish first takes the service over
\* (taken is the service as the unpublishing client holds it)
Owed(r, sub, i, taken) ==
    LET was == DB_has_service(Cur, i)
        is == DB_has_service(r, i)
    IN IF ~was /\ is
       THEN Transition(sub.filter, SubTa(sub), "ADDED", i, NoGeneration, DB_get_service(r, i))
       ELSE IF was /\ is
       THEN IF DB_get_service(r, i) = Stored(i) THEN <<>>
            ELSE Transition(sub.filter, SubTa(sub), "MODIFIED", i, Stored(i),
                            DB_get_service(r, i))
       ELSE IF was /\ ~is
       THEN (IF taken = Stored(i) THEN <<>>
             ELSE Transition(sub.filter, SubTa(sub), "MODIFIED", i, Stored(i), taken))
            \o Transition(sub.filter, SubTa(sub), "REMOVED", i, taken, NoGeneration)
       ELSE <<>>

\* the step to r has queued, for every subscription whose connection is
\* still there, exactly the notifications owed
NotifiedAsOwed(r, unpublisher) ==
    /\ r.crash = ""
    /\ \A j \in 1..Len(subscriptions), i \in ServiceIds :
           LET sub == subscriptions[j] IN
           r.conns[sub.match_cb].open =>
               NotificationsOf(r, sub, i)
                   = Owed(r, sub, i,
                          IF unpublisher = None \/ ~DB_has_service(Cur, i) THEN NoGeneration
                          ELSE [Stored(i) EXCEPT !.orphan_since = None,
                                                 !.client_id = unpublisher])

\* C1: Subscription.notify sends APPEARED for ADDED iff the new props
\* match; for MODIFIED it sends MODIFIED, APPEARED, DISAPPEARED or nothing
\* as the props matched before and after, before only, after only or
\* never; for REMOVED it sends DISAPPEARED iff the old props matched.  And
\* every publish, unpublish, disconnect and timer expiry queues for every
\* subscription exactly the notifications this table gives for the change
\* of each service.
C1_NotificationsFollowMatchTransitions ==
    crash = "" =>
    /\ \A j \in 1..Len(subscriptions), filter \in ClaimFilters, change \in Changes,
          i \in ServiceIds, pp \in ServiceProps, cp \in ServiceProps :
           LET sub == [subscriptions[j] EXCEPT !.filter = filter]
               prev == Generation(0, pp, 1, None, sub.client_id, sub.user_id)
               cur == Generation(1, cp, 1, None, sub.client_id, sub.user_id)
               r == Subscription_notify(Cur, sub, change, i, prev, cur)
           IN /\ r.crash = ""
              /\ Enqueued(r, sub.match_cb)
                     = Transition(filter, SubTa(sub), change, i, prev, cur)
              /\ \A d \in ConnIds \ {sub.match_cb} : Enqueued(r, d) = <<>>
    /\ \A c \in ConnIds :
           Handshaked(c) =>
               /\ \A x \in PublishInputs :
                      NotifiedAsOwed(Received(c, PublishRequest(ta_id[c], x)), None)
               /\ \A i \in ServiceIds :
                      NotifiedAsOwed(Received(c, UnpublishRequest(ta_id[c], i)),
                                     conns[c].client_id)
    /\ \A c \in ConnIds : conns[c].open => NotifiedAsOwed(Received(c, Closed), None)
    /\ NotifiedAsOwed(TimerManager_process(Cur), None)

\* a subscription is about to be told that a service it matched no longer
\* matches: a publish of a higher generation with other props sends it
\* DISAPPEARED
C1_Witness ==
    \E c \in ConnIds, x \in PublishInputs, j \in 1..Len(subscriptions) :
        /\ Handshaked(c)
        /\ DB_has_service(Cur, x[1])
        /\ Matching(subscriptions[j].filter, Stored(x[1]).props)
        /\ ~Matching(subscriptions[j].filter, x[3])
        /\ NotificationsOf(Received(c, PublishRequest(ta_id[c], x)), subscriptions[j], x[1])
               = <<Disappeared(SubTa(subscriptions[j]), x[1])>>


\* the subscription ids the properties range over: one more than the runs use
ClaimSubIds == SubIds \cup {NSubId + 1}

SubscribeRequest(t, sub_id, filter) ==
    Message("subscribe", t, "request", [subscription_id |-> sub_id, filter |-> filter])

UnsubscribeRequest(t, sub_id) ==
    Message("unsubscribe", t, "request", [subscription_id |-> sub_id])

Accepted(cmd, t) == Message(cmd, t, "accept", NoArgs)

\* what the step from r0 to r has put on the queue of d
EnqueuedSince(r0, r, d) ==
    SubSeq(r.conns[d].out_wire_msgs, Len(r0.conns[d].out_wire_msgs) + 1,
           Len(r.conns[d].out_wire_msgs))

\* the step to r left what was queued for d where it was, ahead of anything
\* the step has queued
QueueKept(r, d) ==
    SubSeq(r.conns[d].out_wire_msgs, 1, Len(conns[d].out_wire_msgs)) = conns[d].out_wire_msgs

NumberOf(q, m) == Cardinality({n \in 1..Len(q) : q[n] = m})

C5_Case(c, sub_id) == Handshaked(c) /\ ~DB_has_subscription(Cur, sub_id)

\* C5: a subscribe that succeeds queues ACCEPT first and then, on the same
\* transaction, exactly one APPEARED for every existing service the filter
\* matches, orphans included, and nothing else; what a later publish,
\* unpublish, disconnect or timer expiry queues comes behind it.
C5_SubscribeAcceptsThenReplays ==
    /\ \A c \in ConnIds, sub_id \in ClaimSubIds, filter \in ClaimFilters :
           C5_Case(c, sub_id) =>
               LET t == ta_id[c]
                   r == Received(c, SubscribeRequest(t, sub_id, filter))
                   q == Enqueued(r, c)
               IN /\ r.crash = ""
                  /\ DB_has_subscription(r, sub_id)
                  /\ Len(q) >= 1
                  /\ q[1] = Accepted("subscribe", t)
                  /\ \A n \in 1..Len(services) :
                         NumberOf(q, Notify(t, "appeared", services[n].service_id,
                                            services[n].cur))
                             = IF Matching(filter, services[n].cur.props) THEN 1 ELSE 0
                  /\ Len(q) = 1 + Cardinality({n \in 1..Len(services) :
                                                  Matching(filter, services[n].cur.props)})
                  /\ \A d \in ConnIds \ {c} : Enqueued(r, d) = <<>>
    /\ \A c \in ConnIds, d \in ConnIds :
           Handshaked(c) /\ conns[d].open =>
               /\ \A x \in PublishInputs :
                      QueueKept(Received(c, PublishRequest(ta_id[c], x)), d)
               /\ \A i \in ServiceIds :
                      QueueKept(Received(c, UnpublishRequest(ta_id[c], i)), d)
    /\ \A c \in ConnIds, d \in ConnIds :
           crash = "" /\ c # d /\ conns[c].open /\ conns[d].open =>
               QueueKept(Received(c, Closed), d)
    /\ \A d \in ConnIds :
           crash = "" /\ conns[d].open /\ TimerManager_process(Cur).conns[d].open =>
               QueueKept(TimerManager_process(Cur), d)

\* a subscribe is about to be accepted while an orphan that its filter
\* matches exists, and ACCEPT and the APPEARED of the orphan are queued
C5_Witness ==
    \E c \in ConnIds, sub_id \in ClaimSubIds, filter \in ClaimFilters,
       n \in 1..Len(services) :
        /\ C5_Case(c, sub_id)
        /\ services[n].cur.orphan_since # None
        /\ Enqueued(Received(c, SubscribeRequest(ta_id[c], sub_id, filter)), c)
               = <<Accepted("subscribe", ta_id[c]),
                   Notify(ta_id[c], "appeared", services[n].service_id, services[n].cur)>>

C6_Case(c, sub_id) ==
    /\ Handshaked(c)
    /\ DB_has_subscription(Cur, sub_id)
    /\ DB_get_subscription(Cur, sub_id).client_id = conns[c].client_id

\* the step from r0 to r has queued nothing on transaction t of c
SilentOn(r0, r, c, t) ==
    \A n \in 1..Len(EnqueuedSince(r0, r, c)) : EnqueuedSince(r0, r, c)[n].ta_id # t

\* C6: an unsubscribe by the owner queues COMPLETE on the subscribe
\* transaction and then COMPLETE on the unsubscribe transaction; the
\* subscription and its transaction are gone, no publish, unpublish,
\* disconnect or timer expiry after it queues anything on the subscribe
\* transaction, and a subscribe with the same subscription id is accepted.
C6_UnsubscribeCompletesBothTransactions ==
    \A c \in ConnIds, sub_id \in ClaimSubIds :
        C6_Case(c, sub_id) =>
            LET t == ta_id[c]
                sub_ta == conns[c].sub_tas[sub_id]
                r == Received(c, UnsubscribeRequest(t, sub_id))
            IN /\ r.crash = ""
               /\ Enqueued(r, c) = <<Complete("subscribe", sub_ta), Complete("unsubscribe", t)>>
               /\ \A d \in ConnIds \ {c} : Enqueued(r, d) = <<>>
               /\ ~DB_has_subscription(r, sub_id)
               /\ sub_ta \notin DOMAIN r.conns[c].tas
               /\ sub_id \notin DOMAIN r.conns[c].sub_tas
               /\ \A d \in ConnIds :
                      r.conns[d].open /\ r.conns[d].handshaked =>
                          LET u == IF d = c THEN t + 1 ELSE ta_id[d] IN
                          /\ \A x \in PublishInputs :
                                 SilentOn(r, Connection_try_receive(r, d, PublishRequest(u, x)),
                                          c, sub_ta)
                          /\ \A i \in ServiceIds :
                                 SilentOn(r, Connection_try_receive(r, d, UnpublishRequest(u, i)),
                                          c, sub_ta)
               /\ \A d \in ConnIds \ {c} :
                      r.conns[d].open => SilentOn(r, Connection_try_receive(r, d, Closed),
                                                  c, sub_ta)
               /\ SilentOn(r, TimerManager_process(r), c, sub_ta)
               /\ \A filter \in ClaimFilters :
                      LET r3 == Connection_try_receive(r, c,
                                    SubscribeRequest(t + 1, sub_id, filter))
                      IN /\ DB_has_subscription(r3, sub_id)
                         /\ EnqueuedSince(r, r3, c)[1] = Accepted("subscribe", t + 1)

\* the owner of a subscription that matches an existing service is about to
\* unsubscribe, and the two COMPLETEs are queued
C6_Witness ==
    \E c \in ConnIds, sub_id \in ClaimSubIds, n \in 1..Len(services) :
        /\ C6_Case(c, sub_id)
        /\ Matching(DB_get_subscription(Cur, sub_id).filter, services[n].cur.props)
        /\ Enqueued(Received(c, UnsubscribeRequest(ta_id[c], sub_id)), c)
               = <<Complete("subscribe", conns[c].sub_tas[sub_id]),
                   Complete("unsubscribe", ta_id[c])>>


\* the notifications about service i the step from r0 to r has queued for sub
NotificationsSince(r0, r, sub, i) ==
    SelectSeq(EnqueuedSince(r0, r, sub.match_cb),
              LAMBDA m : /\ m.msg_type = "notify"
                         /\ m.ta_id = SubTa(sub)
                         /\ m.args.service_id = i)

HasOrphanTimer(r, i) ==
    \/ i \in DOMAIN r.orphan_timers
    \/ \E n \in 1..Len(r.deque) : r.deque[n].kind = "orphan" /\ r.deque[n].id = i

\* connection c is that of the client that owns service i, no orphan
Owns(c, i) ==
    /\ DB_has_service(Cur, i)
    /\ Stored(i).client_id = conns[c].client_id
    /\ Stored(i).orphan_since = None

\* C7: closing a handshaked connection whose client owns N services makes
\* each of them an orphan since the time of the disconnect, with an orphan
\* timer at orphan-since + ttl, and queues for every subscription of
\* another connection that matches it exactly one MODIFIED with that
\* orphan-since; when the timer fires the service is removed and the
\* subscription gets exactly one DISAPPEARED.
C7_DisconnectOrphansOwnedServices ==
    \A c \in ConnIds, i \in ServiceIds :
        Handshaked(c) /\ Owns(c, i) =>
            LET r == Received(c, Closed)
                orphan == [Stored(i) EXCEPT !.orphan_since = now]
                r2 == TimerManager_process([r EXCEPT !.now = now + Stored(i).ttl])
            IN /\ r.crash = ""
               /\ DB_has_service(r, i)
               /\ DB_get_service(r, i) = orphan
               /\ i \in DOMAIN r.orphan_timers
               /\ r.orphan_timers[i] = Timer("orphan", i, now + Stored(i).ttl)
               /\ Contains(r.deque, Timer("orphan", i, now + Stored(i).ttl))
               /\ \A j \in 1..Len(subscriptions) :
                      LET sub == subscriptions[j] IN
                      sub.match_cb # c /\ Matching(sub.filter, Stored(i).props) =>
                          /\ NotificationsOf(r, sub, i)
                                 = <<Notify(SubTa(sub), "modified", i, orphan)>>
                          /\ r2.conns[sub.match_cb].open =>
                                 NotificationsSince(r, r2, sub, i)
                                     = <<Disappeared(SubTa(sub), i)>>
               /\ r2.crash = ""
               /\ ~DB_has_service(r2, i)

\* the owning client of a stored service has no active connection
OwnerGone(e) ==
    \/ e.client_id \notin DOMAIN clients
    \/ ~Client_is_connected(clients[e.client_id])

\* C8: a service whose owning client has no active connection is removed
\* by the expiry of its orphan timer unless it is republished or
\* unpublished first, also after the client had reconnected and
\* republished it.  Timers fire when due, so this is: every service whose
\* owning client has no active connection is an orphan whose orphan timer
\* is pending at orphan-since + ttl.
C8_ServicesOfGoneClientsAwaitOrphanTimer ==
    crash = "" =>
        \A n \in 1..Len(services) :
            LET e == services[n].cur
                i == services[n].service_id
            IN OwnerGone(e) =>
                   /\ e.orphan_since # None
                   /\ i \in DOMAIN orphan_timers
                   /\ Contains(deque, Timer("orphan", i, e.orphan_since + e.ttl))

C9_Case(c, x) ==
    /\ Handshaked(c)
    /\ DB_has_service(Cur, x[1])
    /\ Stored(x[1]).orphan_since # None
    /\ UserOf(c) = Stored(x[1]).user_id
    /\ \/ x[2] > Stored(x[1]).generation
       \/ x[2] = Stored(x[1]).generation /\ x[3] = Stored(x[1]).props
                                          /\ x[4] = Stored(x[1]).ttl

\* C9: when a connected client of the service's user republishes an orphan
\* with the same generation, props and ttl, or with a higher generation,
\* under the former owner's client id or another, the publish completes,
\* the service is no orphan, its client id is the publisher's, its orphan
\* timer is gone, every subscription matching it before and after gets
\* exactly one MODIFIED without orphan-since, and the service is still
\* there when the former orphan-since + ttl has passed.
C9_RepublishReclaimsOrphan ==
    \A c \in ConnIds, x \in PublishInputs :
        C9_Case(c, x) =>
            LET i == x[1]
                r == Received(c, PublishRequest(ta_id[c], x))
                q == Enqueued(r, c)
                r2 == TimerManager_process(
                          [r EXCEPT !.now = Max(now, Stored(i).orphan_since + Stored(i).ttl)])
            IN /\ r.crash = ""
               /\ Len(q) >= 1
               /\ q[Len(q)] = Complete("publish", ta_id[c])
               /\ DB_has_service(r, i)
               /\ DB_get_service(r, i)
                      = Generation(x[2], x[3], x[4], None, conns[c].client_id, UserOf(c))
               /\ ~HasOrphanTimer(r, i)
               /\ \A j \in 1..Len(subscriptions) :
                      LET sub == subscriptions[j] IN
                      Matching(sub.filter, Stored(i).props) /\ Matching(sub.filter, x[3]) =>
                          NotificationsOf(r, sub, i)
                              = <<Notify(SubTa(sub), "modified", i,
                                         Generation(x[2], x[3], x[4], None,
                                                    conns[c].client_id, UserOf(c)))>>
               /\ r2.crash = ""
               /\ DB_has_service(r2, i)

\* a client other than the former owner is about to republish an orphan
\* that a subscription matches, and the subscription gets its MODIFIED
C9_Witness ==
    \E c \in ConnIds, x \in PublishInputs, j \in 1..Len(subscriptions) :
        /\ C9_Case(c, x)
        /\ conns[c].client_id # Stored(x[1]).client_id
        /\ x[2] = Stored(x[1]).generation
        /\ Matching(subscriptions[j].filter, x[3])
        /\ Len(NotificationsOf(Received(c, PublishRequest(ta_id[c], x)),
                               subscriptions[j], x[1])) = 1

C10_Case(c, i) == Handshaked(c) /\ DB_has_service(Cur, i)

\* C10: a publish or an unpublish of an existing service by a client of
\* another user than the service's fails with permission-denied, leaves
\* the service unchanged and notifies no subscription; an unpublish by a
\* client of the service's user, the owner or not, completes and removes
\* the service and its orphan timer.
C10_OtherUserDeniedSameUserUnpublishes ==
    /\ \A c \in ConnIds, x \in PublishInputs :
           C10_Case(c, x[1]) /\ UserOf(c) # Stored(x[1]).user_id =>
               LET r == Received(c, PublishRequest(ta_id[c], x)) IN
               /\ ServicesUntouched(r)
               /\ OnlyAnswer(r, c, Fail("publish", ta_id[c], "permission-denied"))
    /\ \A c \in ConnIds, i \in ServiceIds :
           C10_Case(c, i) =>
               LET r == Received(c, UnpublishRequest(ta_id[c], i))
                   q == Enqueued(r, c)
               IN IF UserOf(c) # Stored(i).user_id
                  THEN /\ ServicesUntouched(r)
                       /\ OnlyAnswer(r, c, Fail("unpublish", ta_id[c], "permission-denied"))
                  ELSE /\ r.crash = ""
                       /\ Len(q) >= 1
                       /\ q[Len(q)] = Complete("unpublish", ta_id[c])
                       /\ ~DB_has_service(r, i)
                       /\ ~HasOrphanTimer(r, i)

\* a client of another user is about to publish and to unpublish an
\* existing service and is denied both
C10_Witness ==
    \E c \in ConnIds, x \in PublishInputs :
        /\ C10_Case(c, x[1])
        /\ UserOf(c) # Stored(x[1]).user_id
        /\ Enqueued(Received(c, PublishRequest(ta_id[c], x)), c)
               = <<Fail("publish", ta_id[c], "permission-denied")>>
        /\ Enqueued(Received(c, UnpublishRequest(ta_id[c], x[1])), c)
               = <<Fail("unpublish", ta_id[c], "permission-denied")>>


C11_Case(c, i) ==
    /\ Handshaked(c)
    /\ DB_has_service(Cur, i)
    /\ UserOf(c) = Stored(i).user_id
    /\ Stored(i).orphan_since # None \/ Stored(i).client_id # conns[c].client_id

\* C11: when a client unpublishes a service of its user that is an orphan
\* or is owned by another client id, the unpublish completes, every
\* subscription that matches the service gets MODIFIED with the
\* unpublisher's client id and no orphan-since and then DISAPPEARED and no
\* other notification about the service, the service and its orphan timer
\* are gone, and the timers that fire later queue nothing about it.
C11_UnpublishTakesOverThenRemoves ==
    \A c \in ConnIds, i \in ServiceIds :
        C11_Case(c, i) =>
            LET r == Received(c, UnpublishRequest(ta_id[c], i))
                q == Enqueued(r, c)
                taken == [Stored(i) EXCEPT !.orphan_since = None,
                                           !.client_id = conns[c].client_id]
                r2 == TimerManager_process([r EXCEPT !.now = now + Stored(i).ttl + 1])
            IN /\ r.crash = ""
               /\ Len(q) >= 1
               /\ q[Len(q)] = Complete("unpublish", ta_id[c])
               /\ ~DB_has_service(r, i)
               /\ ~HasOrphanTimer(r, i)
               /\ \A j \in 1..Len(subscriptions) :
                      LET sub == subscriptions[j] IN
                      /\ NotificationsOf(r, sub, i)
                             = IF Matching(sub.filter, Stored(i).props)
                               THEN <<Notify(SubTa(sub), "modified", i, taken),
                                      Disappeared(SubTa(sub), i)>>
                               ELSE <<>>
                      /\ r2.conns[sub.match_cb].open =>
                             NotificationsSince(r, r2, sub, i) = <<>>
               /\ r2.crash = ""

\* a client is about to unpublish an orphan of another client id of its
\* user, whose orphan timer is pending, while a subscription matches it,
\* and the subscription gets the two notifications
C11_Witness ==
    \E c \in ConnIds, i \in ServiceIds, j \in 1..Len(subscriptions) :
        /\ C11_Case(c, i)
        /\ Stored(i).orphan_since # None
        /\ Stored(i).client_id # conns[c].client_id
        /\ i \in DOMAIN orphan_timers
        /\ Matching(subscriptions[j].filter, Stored(i).props)
        /\ Len(NotificationsOf(Received(c, UnpublishRequest(ta_id[c], i)),
                               subscriptions[j], i)) = 2


(***************************************************************************)
(* The server started with resource limits (paf/conf.py resources): one of *)
(* each kind per user, or two clients, one subscription and one service in *)
(* the whole server.                                                       *)
(***************************************************************************)
LimitedResourceConfs ==
    { [user |-> resources(1, 1, 1), total |-> resources(None, None, None)],
      [user |-> resources(None, None, None), total |-> resources(2, 1, 1)] }

InitLimited ==
    /\ \E rc \in LimitedResourceConfs :
           /\ max_user_resources = rc.user
           /\ max_total_resources = rc.total
    /\ now = 0
    /\ deque = <<>>
    /\ orphan_timers = EmptyDict
    /\ clients = EmptyDict
    /\ services = <<>>
    /\ subscriptions = <<>>
    /\ consumers = EmptyDict
    /\ conns = [c \in ConnIds |-> ClosedConnection]
    /\ clientless_connections = {}
    /\ client_connections = EmptyDict
    /\ clean_out_timer = None
    /\ acceptable = TRUE
    /\ crash = ""
    /\ ta_id = [c \in ConnIds |-> None]

SpecLimited == InitLimited /\ [][Next]_vars

\* the users of the runs: the one of the ux socket and the one of the
\* tcp address
UserIds ==
    {determine_user_id([conns |-> <<[conn_addr |-> a]>>], 1) : a \in {UxAddr, TcpAddr}}

\* the objects of a kind that exist for user u: connected clients, stored
\* services, subscriptions
Existing(kind, u) ==
    IF kind = "CLIENT"
    THEN Cardinality({k \in DOMAIN clients :
                         Client_is_connected(clients[k]) /\ clients[k].user_id = u})
    ELSE IF kind = "SERVICE"
    THEN Cardinality({n \in 1..Len(services) : services[n].cur.user_id = u})
    ELSE Cardinality({n \in 1..Len(subscriptions) : subscriptions[n].user_id = u})

ExistingInAll(kind) ==
    IF kind = "CLIENT"
    THEN Cardinality({k \in DOMAIN clients : Client_is_connected(clients[k])})
    ELSE IF kind = "SERVICE" THEN Len(services)
    ELSE Len(subscriptions)

\* the count the resource manager keeps for user u
Counted(kind, u) == IF u \in DOMAIN consumers THEN consumers[u][kind] ELSE 0

\* C12: at every point of every run of connects, disconnects, publishes,
\* unpublishes, subscribes, unsubscribes and timer expiries, for each kind
\* the count of every user is the number of that user's connected clients,
\* services or subscriptions and is at most the per-user cap, and the
\* global count, the sum of the per-user counts, is the number of them
\* all and is at most the global cap.
C12_ResourceCountsWithinCaps ==
    crash = "" =>
        \A kind \in Kinds :
            /\ DOMAIN consumers \subseteq UserIds
            /\ \A u \in UserIds :
                   /\ Counted(kind, u) = Existing(kind, u)
                   /\ max_user_resources[kind] # None =>
                          Counted(kind, u) <= max_user_resources[kind]
            /\ ResourceManager_total(Cur, kind) = ExistingInAll(kind)
            /\ max_total_resources[kind] # None =>
                   ResourceManager_total(Cur, kind) <= max_total_resources[kind]

\* a user holds its cap of services while another user holds a service too
C12_Witness ==
    /\ crash = ""
    /\ max_user_resources["SERVICE"] # None
    /\ \E u \in UserIds, v \in UserIds :
           /\ u # v
           /\ Counted("SERVICE", u) = max_user_resources["SERVICE"]
           /\ Counted("SERVICE", v) > 0
           /\ ResourceManager_total(Cur, "SERVICE") = Len(services)

\* the user of connection c holds the per-user maximum of services, or the
\* server holds the global maximum
ServicesExhausted(c) ==
    \/ /\ max_user_resources["SERVICE"] # None
       /\ Existing("SERVICE", UserOf(c)) = max_user_resources["SERVICE"]
    \/ /\ max_total_resources["SERVICE"] # None
       /\ Len(services) = max_total_resources["SERVICE"]

C13_Case(c, x) == Handshaked(c) /\ ~DB_has_service(Cur, x[1])

\* the publish x of c in state r, in transaction t, completes and stores
\* the service
PublishSucceeds(r, c, t, x) ==
    LET r1 == Connection_try_receive(r, c, PublishRequest(t, x))
        q == EnqueuedSince(r, r1, c)
    IN /\ r1.crash = ""
       /\ Len(q) >= 1
       /\ q[Len(q)] = Complete("publish", t)
       /\ DB_has_service(r1, x[1])
       /\ DB_get_service(r1, x[1])
              = Generation(x[2], x[3], x[4], None, conns[c].client_id, UserOf(c))

\* C13: a publish of an unknown service id fails with
\* insufficient-resources exactly when the publisher's user holds the
\* per-user maximum of services or the server holds the global maximum,
\* and completes otherwise; the failure leaves every service, holder,
\* timer, subscription and count as it was and notifies nobody; and once
\* a service of that user is unpublished, or has expired as an orphan, the
\* same publish by that user completes.
C13_PublishFailsExactlyWhenExhausted ==
    \A c \in ConnIds, x \in PublishInputs :
        C13_Case(c, x) =>
            LET t == ta_id[c]
                r == Received(c, PublishRequest(t, x))
            IN IF ServicesExhausted(c)
               THEN /\ ServicesUntouched(r)
                    /\ OnlyAnswer(r, c, Fail("publish", t, "insufficient-resources"))
                    /\ \A n \in 1..Len(services) :
                           LET i == services[n].service_id
                               e == services[n].cur
                               expired == TimerManager_process(
                                              [Cur EXCEPT !.now = e.orphan_since + e.ttl])
                           IN e.user_id = UserOf(c) =>
                                  /\ PublishSucceeds(Received(c, UnpublishRequest(t, i)),
                                                     c, t + 1, x)
                                  /\ /\ e.orphan_since # None
                                     /\ expired.crash = ""
                                     /\ expired.conns[c].open
                                     => PublishSucceeds(expired, c, t, x)
               ELSE PublishSucceeds(Cur, c, t, x)

\* a publish of a new service is about to fail with insufficient-resources
\* while an orphan of the publisher's user is waiting for its expiry
C13_Witness ==
    \E c \in ConnIds, x \in PublishInputs, n \in 1..Len(services) :
        /\ C13_Case(c, x)
        /\ ServicesExhausted(c)
        /\ services[n].cur.user_id = UserOf(c)
        /\ services[n].cur.orphan_since # None
        /\ Enqueued(Received(c, PublishRequest(ta_id[c], x)), c)
               = <<Fail("publish", ta_id[c], "insufficient-resources")>>


\* the protocol version ranges the properties range over: those around the
\* range of the server
ClaimVersions == (MIN_VERSION - 1)..(MAX_VERSION + 1)

HelloRequest(t, client_id, min_version, max_version) ==
    Message("hello", t, "request",
            [client_id |-> client_id, protocol_minimum_version |-> min_version,
             protocol_maximum_version |-> max_version])

\* the protocol version the server and a client with the given range agree on
Agreed(min_version, max_version) ==
    IF (IF min_version > MIN_VERSION THEN min_version ELSE MIN_VERSION)
           <= (IF max_version < MAX_VERSION THEN max_version ELSE MAX_VERSION)
    THEN (IF max_version < MAX_VERSION THEN max_version ELSE MAX_VERSION)
    ELSE None

\* connection c has not completed its handshake and presents client id k,
\* which has an active connection
C14_Case(c, k) ==
    /\ crash = ""
    /\ conns[c].open
    /\ ~conns[c].handshaked
    /\ conns[c].client_id \in {None, k}
    /\ k \in DOMAIN clients
    /\ Len(clients[k].active) > 0

\* the step to r has left every client with its engine connections, every
\* service and subscription, and every handshaked transport connection
EngineKept(r) ==
    /\ ServicesUntouched(r)
    /\ DOMAIN r.clients = DOMAIN clients
    /\ \A k \in DOMAIN clients :
           /\ Len(r.clients[k].active) = Len(clients[k].active)
           /\ Len(r.clients[k].inactive) = Len(clients[k].inactive)
           /\ \A j \in 1..Len(clients[k].active) :
                  r.clients[k].active[j].subscriptions = clients[k].active[j].subscriptions
    /\ r.client_connections = client_connections
    /\ \A d \in ConnIds :
           conns[d].handshaked =>
               /\ r.conns[d].open = conns[d].open
               /\ r.conns[d].handshaked
               /\ r.conns[d].client_id = conns[d].client_id
               /\ r.conns[d].sub_tas = conns[d].sub_tas

\* C14: no two handshaked connections have the same client id; a hello
\* with a client id that has an active connection fails with
\* client-id-exists and leaves the connection without handshake; neither
\* the failure nor the closing of the rejected connection after it
\* disconnects the existing client, orphans or removes a service or
\* removes a subscription.
C14_OneActiveConnectionPerClientId ==
    /\ \A c \in ConnIds, d \in ConnIds :
           Handshaked(c) /\ Handshaked(d) /\ c # d => conns[c].client_id # conns[d].client_id
    /\ \A c \in ConnIds : Handshaked(c) => client_connections[conns[c].client_id] = c
    /\ \A c \in ConnIds, k \in ClientIds, lo \in ClaimVersions, hi \in ClaimVersions :
           C14_Case(c, k) /\ Agreed(lo, hi) # None =>
               LET t == ta_id[c]
                   r == Received(c, HelloRequest(t, k, lo, hi))
                   r2 == Connection_try_receive(r, c, Closed)
               IN /\ EngineKept(r)
                  /\ Enqueued(r, c) = <<Fail("hello", t, "client-id-exists")>>
                  /\ r.conns[c].open
                  /\ ~r.conns[c].handshaked
                  /\ EngineKept(r2)
                  /\ ~r2.conns[c].open

\* a connection is about to present the client id of a connected client
\* that owns a service and has a subscription, and is refused
C14_Witness ==
    \E c \in ConnIds, k \in ClientIds :
        /\ C14_Case(c, k)
        /\ Len(clients[k].active[1].services) > 0
        /\ Len(clients[k].active[1].subscriptions) > 0
        /\ Enqueued(Received(c, HelloRequest(ta_id[c], k, MIN_VERSION, MAX_VERSION)), c)
               = <<Fail("hello", ta_id[c], "client-id-exists")>>


\* the services whose client id is k
ServicesOf(k) == {n \in 1..Len(services) : services[n].cur.client_id = k}

\* connection c has not completed its handshake and comes from another
\* user than client k, which has no active connection and whose services
\* are all orphans
C15_Case(c, k) ==
    /\ crash = ""
    /\ conns[c].open
    /\ ~conns[c].handshaked
    /\ conns[c].client_id \in {None, k}
    /\ k \in DOMAIN clients
    /\ Len(clients[k].active) = 0
    /\ clients[k].user_id # determine_user_id(Cur, c)
    /\ ServicesOf(k) # {}
    /\ \A n \in ServicesOf(k) : services[n].cur.orphan_since # None

\* when the last orphan of client k expires
LastExpiry(k) ==
    LET due == {services[n].cur.orphan_since + services[n].cur.ttl : n \in ServicesOf(k)}
    IN CHOOSE x \in due : \A y \in due : y <= x

HelloComplete(t, proto_version) ==
    Message("hello", t, "complete", [proto_version |-> proto_version])

\* C15: a hello for a client id whose client has no active connection but
\* holds orphans of another user fails with permission-denied, leaves the
\* connection without handshake and every orphan and orphan timer as it
\* was; when the timers have run at the expiry of the last of these
\* orphans, the client is gone and a hello with the same client id on the
\* same connection completes under the new user.
C15_OrphansOfAnotherUserDenyHello ==
    \A c \in ConnIds, k \in ClientIds, lo \in ClaimVersions, hi \in ClaimVersions :
        C15_Case(c, k) /\ Agreed(lo, hi) # None =>
            LET t == ta_id[c]
                r == Received(c, HelloRequest(t, k, lo, hi))
                r2 == TimerManager_process(
                          [r EXCEPT !.now = IF now > LastExpiry(k) THEN now
                                            ELSE LastExpiry(k)])
                r3 == Connection_try_receive(r2, c, HelloRequest(t + 1, k, lo, hi))
            IN /\ EngineKept(r)
               /\ OnlyAnswer(r, c, Fail("hello", t, "permission-denied"))
               /\ r.conns[c].open
               /\ ~r.conns[c].handshaked
               /\ r.clients[k] = clients[k]
               /\ r2.crash = ""
               /\ k \notin DOMAIN r2.clients
               /\ \A n \in 1..Len(r2.services) : r2.services[n].cur.client_id # k
               /\ r2.conns[c].open =>
                      /\ r3.crash = ""
                      /\ EnqueuedSince(r2, r3, c) = <<HelloComplete(t + 1, Agreed(lo, hi))>>
                      /\ r3.conns[c].handshaked
                      /\ k \in DOMAIN r3.clients
                      /\ r3.clients[k].user_id = determine_user_id(Cur, c)
                      /\ Len(r3.clients[k].active) = 1

\* a connection of another user is about to present the client id of a
\* disconnected client that holds an orphan, and is denied
C15_Witness ==
    \E c \in ConnIds, k \in ClientIds :
        /\ C15_Case(c, k)
        /\ \E n \in ServicesOf(k) : services[n].service_id \in DOMAIN orphan_timers
        /\ Enqueued(Received(c, HelloRequest(ta_id[c], k, MIN_VERSION, MAX_VERSION)), c)
               = <<Fail("hello", ta_id[c], "permission-denied")>>


\* the requests other than hello the properties range over, in
\* transaction t
OtherRequests(t) ==
    {PublishRequest(t, x) : x \in PublishInputs}
    \cup {UnpublishRequest(t, i) : i \in ServiceIds}
    \cup {SubscribeRequest(t, i, f) : i \in ClaimSubIds, f \in ClaimFilters}
    \cup {UnsubscribeRequest(t, i) : i \in ClaimSubIds}
    \cup {Message("services", t, "request", [filter |-> f]) : f \in ClaimFilters}
    \cup {Message("ping", t, "request", NoArgs), Message("track", t, "request", NoArgs)}

\* connection c has not completed its handshake; m is a request of its
\* protocol version (track is no command of version 2)
C16_Case(c, m) ==
    /\ crash = ""
    /\ conns[c].open
    /\ ~conns[c].handshaked
    /\ m.ta_id \notin DOMAIN conns[c].tas
    /\ m.ta_cmd = "track" => conns[c].proto_version \in {None, MAX_VERSION}

\* C16: on a connection that has not completed its handshake, a request
\* other than hello is answered with FAIL no-hello on its transaction and
\* nothing else is queued; no client, engine connection, service,
\* subscription, resource count or timer is created, changed or removed,
\* and the connection stays open without handshake.
C16_RequestBeforeHelloFailsNoHello ==
    \A c \in ConnIds : \A m \in OtherRequests(ta_id[c]) :
        C16_Case(c, m) =>
            LET r == Received(c, m) IN
            /\ EngineKept(r)
            /\ OnlyAnswer(r, c, Fail(m.ta_cmd, m.ta_id, "no-hello"))
            /\ r.clients = clients
            /\ r.deque = deque
            /\ r.conns[c].open
            /\ ~r.conns[c].handshaked
            /\ r.conns[c].tas = conns[c].tas
            /\ r.conns[c].sub_tas = conns[c].sub_tas
            /\ r.clientless_connections = clientless_connections

\* a connection whose hello was refused is about to ask for a publish
\* while a client with a service is connected, and gets no-hello
C16_Witness ==
    \E c \in ConnIds, x \in PublishInputs :
        /\ C16_Case(c, PublishRequest(ta_id[c], x))
        /\ conns[c].client_id # None
        /\ Len(services) > 0
        /\ ~DB_has_service(Cur, x[1])
        /\ Enqueued(Received(c, PublishRequest(ta_id[c], x)), c)
               = <<Fail("publish", ta_id[c], "no-hello")>>


\* the ranges a ProtoVersionLimitConf accepts for the server
ServerRanges ==
    {x \in (MIN_VERSION..MAX_VERSION) \X (MIN_VERSION..MAX_VERSION) : x[1] <= x[2]}

\* connection c has not completed its handshake and client id k is free
\* for its user
C17_Case(c, k) ==
    /\ crash = ""
    /\ conns[c].open
    /\ ~conns[c].handshaked
    /\ conns[c].client_id \in {None, k}
    /\ ta_id[c] \notin DOMAIN conns[c].tas

ClientIdFree(c, k) ==
    \/ k \notin DOMAIN clients
    \/ /\ Len(clients[k].active) = 0
       /\ clients[k].user_id = determine_user_id(Cur, c)

\* C17: for every range of the server and of the client,
\* get_highest_allowed is the smaller of the two maxima when the greater
\* of the two minima is not above it, and None otherwise; a hello whose
\* range meets that of the server completes with that version and the
\* connection has it and is handshaked, and a hello whose range does not
\* fails with unsupported-protocol-version, the connection stays without
\* handshake and no client is created or changed.
C17_HelloSelectsHighestCommonVersion ==
    /\ \A x \in ServerRanges, lo \in ClaimVersions, hi \in ClaimVersions :
           LET top == IF hi < x[2] THEN hi ELSE x[2]
               bottom == IF lo > x[1] THEN lo ELSE x[1]
           IN ProtoVersionLimitConf_get_highest_allowed(x[1], x[2], lo, hi)
                  = IF bottom <= top THEN top ELSE None
    /\ \A c \in ConnIds, k \in ClientIds, lo \in ClaimVersions, hi \in ClaimVersions :
           C17_Case(c, k) =>
               LET t == ta_id[c]
                   r == Received(c, HelloRequest(t, k, lo, hi))
               IN IF Agreed(lo, hi) = None
                  THEN /\ EngineKept(r)
                       /\ r.clients = clients
                       /\ OnlyAnswer(r, c, Fail("hello", t, "unsupported-protocol-version"))
                       /\ r.conns[c].open
                       /\ ~r.conns[c].handshaked
                       /\ c \in r.clientless_connections
                  ELSE ClientIdFree(c, k) =>
                           /\ r.crash = ""
                           /\ OnlyAnswer(r, c, HelloComplete(t, Agreed(lo, hi)))
                           /\ r.conns[c].handshaked
                           /\ r.conns[c].proto_version = Agreed(lo, hi)
                           /\ r.client_connections[k] = c
                           /\ Len(r.clients[k].active) = 1

\* a connection is about to say hello: with a range above that of the
\* server it is refused, with a range around it it gets the server's
\* highest version
C17_Witness ==
    \E c \in ConnIds, k \in ClientIds :
        /\ C17_Case(c, k)
        /\ ClientIdFree(c, k)
        /\ Enqueued(Received(c, HelloRequest(ta_id[c], k, MAX_VERSION + 1, MAX_VERSION + 1)), c)
               = <<Fail("hello", ta_id[c], "unsupported-protocol-version")>>
        /\ Enqueued(Received(c, HelloRequest(ta_id[c], k, MIN_VERSION - 1, MAX_VERSION + 1)), c)
               = <<HelloComplete(ta_id[c], MAX_VERSION)>>


(***************************************************************************)
(* The server over the time the handshake deadline and the idle timers     *)
(* need: clients that say hello, open a track transaction, ping or stay    *)
(* silent, while the clock runs to MaxLateTime.                            *)
(***************************************************************************)
MaxLateTime == 4    \* the clock of these runs stops at MaxLateTime

\* the requests of these clients in a transaction with id t
LateRequests(t) ==
    HelloRequests(t)
    \cup {Message("track", t, "request", NoArgs), Message("ping", t, "request", NoArgs)}

\* time passes; the event loop runs a due timer before it waits
LateTick ==
    /\ crash = ""
    /\ ~Pending
    /\ now < MaxLateTime
    /\ ~TimerDue
    /\ now' = now + 1
    /\ UNCHANGED <<deque, orphan_timers, clients, services, subscriptions, consumers,
                   max_user_resources, max_total_resources, conns,
                   clientless_connections, client_connections, clean_out_timer,
                   acceptable, crash, ta_id>>

NextLate ==
    \/ \E c \in ConnIds, conn_addr \in {UxAddr, TcpAddr} : Accept(c, conn_addr)
    \/ \E c \in ConnIds, t \in TaIds : \E m \in LateRequests(t) : Receive(c, m)
    \/ \E c \in ConnIds : Close(c)
    \/ \E c \in ConnIds : Send(c)
    \/ TimerActivate
    \/ LateTick

SpecLate == Init /\ [][NextLate]_vars


\* connection c is waiting for its handshake to complete
Unhandshaked(c) == conns[c].open /\ ~conns[c].handshaked

\* C18: while a connection that has not completed the handshake exists,
\* the janitor scan is scheduled within the next second; and a connection
\* that has not completed the handshake, whatever it has sent, is closed by
\* the scan that runs once it is older than the handshake deadline: when
\* such a connection is older than the deadline a timer is due and the
\* timers that run close it.
C18_JanitorClosesUnhandshakedConnections ==
    crash = "" =>
        /\ (\E c \in ConnIds : Unhandshaked(c)) =>
               /\ clean_out_timer # None
               /\ clean_out_timer <= now + CLEAN_INTERVAL
               /\ Contains(deque, Timer("clean", 0, clean_out_timer))
        /\ \A c \in ConnIds :
               Unhandshaked(c) /\ now - conns[c].connect_time > MAX_HANDSHAKE_TIME =>
                   /\ TimerDue
                   /\ ~TimerManager_process(Cur).conns[c].open


TrackQuery(t) == Message("track", t, "notify", [track_type |-> "query"])

\* connection c, waiting for its handshake, presents client id k, whose
\* connection d runs protocol version 3 or later and has a track
\* transaction open
C19_Case(c, k, d) ==
    /\ C14_Case(c, k)
    /\ ta_id[c] \notin DOMAIN conns[c].tas
    /\ k \in DOMAIN client_connections
    /\ client_connections[k] = d
    /\ conns[d].proto_version >= 3
    /\ conns[d].track_ta_id # None
    /\ conns[d].track_ta_id \in DOMAIN conns[d].tas

\* C19 as stated: a hello refused with client-id-exists queues, in the
\* same step, a track query on the existing connection of the client
\* whenever that connection runs protocol version 3 or later and has a
\* track transaction open.
C19_RefusedHelloQueriesExistingConnection ==
    \A c \in ConnIds, k \in ClientIds, d \in ConnIds :
        C19_Case(c, k, d) =>
            LET r == Received(c, HelloRequest(ta_id[c], k, MIN_VERSION, MAX_VERSION)) IN
            /\ r.crash = ""
            /\ Enqueued(r, c) = <<Fail("hello", ta_id[c], "client-id-exists")>>
            /\ Enqueued(r, d) = <<TrackQuery(conns[d].track_ta_id)>>

\* C19, amended: a hello refused with client-id-exists queues, in the same
\* step and before any idle timer fires, one track query on the existing
\* connection of the client if that connection runs protocol version 3 or
\* later, has a track transaction open and has no track query outstanding,
\* and then the query is outstanding; if a query is outstanding already
\* nothing is queued on the existing connection.
C19_RefusedHelloQueriesUnlessOutstanding ==
    \A c \in ConnIds, k \in ClientIds, d \in ConnIds :
        C19_Case(c, k, d) =>
            LET r == Received(c, HelloRequest(ta_id[c], k, MIN_VERSION, MAX_VERSION)) IN
            /\ r.crash = ""
            /\ Enqueued(r, c) = <<Fail("hello", ta_id[c], "client-id-exists")>>
            /\ Enqueued(r, d) = IF conns[d].track_query_ts = None
                                THEN <<TrackQuery(conns[d].track_ta_id)>>
                                ELSE <<>>
            /\ r.conns[d].track_query_ts # None
            /\ r.conns[d].open

\* a connection is about to present the client id of a connection with an
\* open track transaction and no query outstanding whose idle warning
\* timer is not due yet, and the query is queued
C19_Witness ==
    \E c \in ConnIds, k \in ClientIds, d \in ConnIds :
        /\ C19_Case(c, k, d)
        /\ conns[d].track_query_ts = None
        /\ clients[k].active[1].idle_timer > now
        /\ Enqueued(Received(c, HelloRequest(ta_id[c], k, MIN_VERSION, MAX_VERSION)), d)
               = <<TrackQuery(conns[d].track_ta_id)>>


(***************************************************************************)
(* Idle detection and the requests of the client (paf/server.py            *)
(* Connection.process, paf/sd.py Connection.active).                       *)
(***************************************************************************)
\* the requests and informs a client may send next on connection c
IdleRequests(c) ==
    RunRequests(ta_id[c])
    \cup {Message("services", ta_id[c], "request", [filter |-> NoFilter]),
          Message("ping", ta_id[c], "request", NoArgs),
          Message("track", ta_id[c], "request", NoArgs)}
    \cup {Message("track", conns[c].track_ta_id, "inform", [track_type |-> t]) :
              t \in {"query", "reply"}}

\* the time from a request of client k to its idle warning, in state r
WarningInterval(r, k) ==
    SdConnection_max_idle_time(r, r.clients[k].active[1]) \div WARNING_THRESHOLD_DIV

IdleTimersOf(r, k) == SelectSeq(r.deque, LAMBDA timer : timer.kind = "idle" /\ timer.id = k)

\* connection c has completed its handshake and has not timed out
C20_Case(c) ==
    /\ Handshaked(c)
    /\ clients[conns[c].client_id].active # <<>>
    /\ clients[conns[c].client_id].active[1].idle_state # "TIMED_OUT"

\* r is the state after a request or inform the connection c has survived
Survived(r, c) == r.crash = "" /\ r.conns[c].open

\* a request or inform puts the idle state of the connection back to ACTIVE
\* and leaves one idle timer for its client, a warning timer that starts now
ReturnsToActive(c, m) ==
    LET r == Received(c, m)
        k == conns[c].client_id
    IN Survived(r, c) =>
           /\ r.clients[k].active[1].idle_state = "ACTIVE"
           /\ r.clients[k].active[1].idle_timer = now + WarningInterval(r, k)
           /\ IdleTimersOf(r, k) = <<Timer("idle", k, now + WarningInterval(r, k))>>

Ping(t) == Message("ping", t, "request", NoArgs)

\* the state r after time has passed and the timer source has fired
Later(r, elapsed) == TimerManager_process([r EXCEPT !.now = r.now + elapsed])

\* from state r0 to state r no track query was queued for connection d and
\* the connection stayed open
Undisturbed(r0, r, d) ==
    /\ r.conns[d].open
    /\ \A n \in 1..Len(EnqueuedSince(r0, r, d)) :
           ~(/\ EnqueuedSince(r0, r, d)[n].ta_cmd = "track"
             /\ EnqueuedSince(r0, r, d)[n].msg_type = "notify")

\* C20 as stated: every request or inform received on a handshaked
\* connection that has not timed out puts its idle state back to ACTIVE and
\* replaces the pending idle timer by a fresh warning timer; hence, for less
\* than the warning interval after a request, no step of the server (the
\* timers that fire, or what another connection sends) queues a track query
\* for the connection or closes it.
C20_RequestKeepsConnectionFromQueryAndTimeout ==
    \A c \in ConnIds :
        C20_Case(c) =>
            /\ \A m \in IdleRequests(c) : ReturnsToActive(c, m)
            /\ LET r == Received(c, Ping(ta_id[c])) IN
               Survived(r, c) =>
                   /\ \A elapsed \in 0..(WarningInterval(r, conns[c].client_id) - 1) :
                          Undisturbed(r, Later(r, elapsed), c)
                   /\ \A d \in ConnIds \ {c}, k \in ClientIds :
                          (r.conns[d].open /\ ta_id[d] \notin DOMAIN r.conns[d].tas) =>
                              Undisturbed(r, Connection_try_receive(r, d, HelloRequest(ta_id[d], k, MIN_VERSION, MAX_VERSION)), c)

\* C20, amended: every request or inform received on a handshaked
\* connection that has not timed out, and that the connection survives,
\* puts its idle state back to ACTIVE and replaces the pending idle timer by
\* a fresh warning timer; hence, for less than the warning interval after a
\* request, the timers that fire queue no track query for the connection
\* and do not close it, also after a hello of another connection with the
\* client id of this one has been refused, which is the one step that
\* queues a track query for the connection before that.
C20_RequestKeepsConnectionFromIdleTimers ==
    \A c \in ConnIds :
        C20_Case(c) =>
            /\ \A m \in IdleRequests(c) : ReturnsToActive(c, m)
            /\ LET r == Received(c, Ping(ta_id[c])) IN
               Survived(r, c) =>
                   /\ \A elapsed \in 0..(WarningInterval(r, conns[c].client_id) - 1) :
                          Undisturbed(r, Later(r, elapsed), c)
                   /\ \A d \in ConnIds \ {c}, k \in ClientIds :
                          (r.conns[d].open /\ ta_id[d] \notin DOMAIN r.conns[d].tas) =>
                              LET probed == Connection_try_receive(r, d, HelloRequest(ta_id[d], k, MIN_VERSION, MAX_VERSION)) IN
                              /\ probed.conns[c].open
                              /\ ~Undisturbed(r, probed, c) =>
                                     /\ k = conns[c].client_id
                                     /\ ~r.conns[d].handshaked
                                     /\ EnqueuedSince(r, probed, d)
                                            = <<Fail("hello", ta_id[d], "client-id-exists")>>
                              /\ \A elapsed \in 0..(WarningInterval(r, conns[c].client_id) - 1) :
                                     Undisturbed(probed, Later(probed, elapsed), c)

\* a connection that was warned and queried by its idle timer sends a ping,
\* which returns it to ACTIVE with a fresh warning timer
C20_Witness ==
    \E c \in ConnIds :
        /\ C20_Case(c)
        /\ clients[conns[c].client_id].active[1].idle_state = "TENTATIVE"
        /\ conns[c].track_query_ts # None
        /\ conns[c].track_query_ts > conns[c].connect_time
        /\ Survived(Received(c, Ping(ta_id[c])), c)
        /\ Received(c, Ping(ta_id[c])).clients[conns[c].client_id].active[1].idle_state
               = "ACTIVE"


(***************************************************************************)
(* The idle timeout (paf/sd.py Connection.idle_timer_fired,                *)
(* issue_idle_warning and issue_idle_timeout, paf/server.py                *)
(* Server.client_idle).                                                    *)
(***************************************************************************)
\* the state r after n seconds in which nothing is received: the timer
\* source fires in each of them
RECURSIVE Elapse(_, _)
Elapse(r, n) ==
    IF n <= 0 \/ r.crash # "" THEN r
    ELSE Elapse(TimerManager_process([r EXCEPT !.now = @ + 1]), n - 1)

\* the time left in state r to the idle timer of the connected client k
IdleTimerLeft(r, k) == r.clients[k].active[1].idle_timer - r.now

\* the state in which the idle warning timer of connection c, which Survived
\* state r, has fired after a silence
Warned(r, c) == Elapse(r, IdleTimerLeft(r, r.conns[c].client_id))

\* connection c has been warned in state r: its idle state is TENTATIVE and
\* the track query is outstanding
Tentative(r, c) ==
    /\ Survived(r, c)
    /\ r.conns[c].handshaked
    /\ r.clients[r.conns[c].client_id].active # <<>>
    /\ r.clients[r.conns[c].client_id].active[1].idle_state = "TENTATIVE"
    /\ Connection_has_outstanding_track_query(r, c)

\* connection c runs protocol version 3 and may open a track transaction
C21_Case(c) ==
    /\ C20_Case(c)
    /\ conns[c].proto_version = 3
    /\ ta_id[c] \notin DOMAIN conns[c].tas
    /\ ~Connection_is_tracked(Cur, c)

TrackRequested(c) == Received(c, Message("track", ta_id[c], "request", NoArgs))

TrackReply(t) == Message("track", t, "inform", [track_type |-> "reply"])

\* in state r connection c is closed, its client has no active connection,
\* no subscription is left that notifies c
ClosedByServer(r, c, k) ==
    /\ r.crash = ""
    /\ ~r.conns[c].open
    /\ c \notin r.clientless_connections
    /\ k \notin DOMAIN r.client_connections
    /\ k \in DOMAIN r.clients => r.clients[k].active = <<>>
    /\ \A n \in 1..Len(r.subscriptions) : r.subscriptions[n].match_cb # c

\* service i, no orphan in state r0, is in state r an orphan since r.now,
\* or it was removed by its orphan timer in the same callback (ttl 0)
Orphaned(r0, r, i) ==
    IF DB_has_service(r, i)
    THEN DB_get_service(r, i) = [DB_get_service(r0, i) EXCEPT !.orphan_since = r.now]
    ELSE DB_get_service(r0, i).ttl = 0

\* C21: on a connection of protocol version 3 with an open track
\* transaction that was sent a track query by its idle warning (state
\* TENTATIVE), if the client sends nothing until the second idle timer
\* fires, the server closes the connection, removes its subscriptions and
\* makes the services of its client orphans; if the client answers with a
\* track reply the connection stays open past that time.
C21_SilenceAfterTrackQueryTimesOut ==
    \A c \in ConnIds :
        C21_Case(c) /\ Tentative(Warned(TrackRequested(c), c), c) =>
            LET warned == Warned(TrackRequested(c), c)
                k == conns[c].client_id
                left == IdleTimerLeft(warned, k)
                timed_out == Elapse(warned, left)
                replied == Connection_try_receive(warned, c, TrackReply(ta_id[c]))
            IN /\ left > 0
               /\ Survived(Elapse(warned, left - 1), c)
               /\ ClosedByServer(timed_out, c, k)
               /\ \A i \in ServiceIds :
                      (/\ DB_has_service(warned, i)
                       /\ DB_get_service(warned, i).client_id = k
                       /\ DB_get_service(warned, i).orphan_since = None)
                          => Orphaned(warned, timed_out, i)
               /\ Survived(replied, c)
               /\ Survived(Elapse(replied, left), c)


\* connection c has completed its handshake and has no track transaction
C22_Case(c) ==
    /\ C20_Case(c)
    /\ ~Connection_is_tracked(Cur, c)

\* the second idle timer of connection c is due: the connection was warned
\* and has been silent since
SecondIdleTimerDue(c) ==
    /\ clients[conns[c].client_id].active[1].idle_state = "TENTATIVE"
    /\ clients[conns[c].client_id].active[1].idle_timer # None
    /\ clients[conns[c].client_id].active[1].idle_timer <= now

\* C22 as stated: the timers that fire never close a connection that has
\* no open track transaction, however long it has been silent.
C22_IdleTimersKeepUntrackedConnection ==
    \A c \in ConnIds :
        C22_Case(c) /\ TimerManager_process(Cur).crash = "" =>
            TimerManager_process(Cur).conns[c].open

\* C22, amended: the timers that fire never queue a track query for a
\* connection that has no open track transaction, and they never close it
\* if it runs protocol version 2; if it runs protocol version 3 they close
\* it, with the disconnect of its client, exactly when its second idle
\* timer is due, that is when it has sent nothing since its idle warning.
C22_IdleTimeoutClosesUntrackedVersion3Connection ==
    \A c \in ConnIds :
        C22_Case(c) /\ TimerManager_process(Cur).crash = "" =>
            LET r == TimerManager_process(Cur) IN
            /\ Undisturbed(Cur, r, c) <=> r.conns[c].open
            /\ r.conns[c].open <=> ~(conns[c].proto_version = 3 /\ SecondIdleTimerDue(c))
            /\ ~r.conns[c].open => ClosedByServer(r, c, conns[c].client_id)

\* a connection of protocol version 3 without track transaction has been
\* silent since its idle warning, and the timer that is due closes it
C22_Witness ==
    \E c \in ConnIds :
        /\ C22_Case(c)
        /\ conns[c].proto_version = 3
        /\ SecondIdleTimerDue(c)
        /\ TimerManager_process(Cur).crash = ""
        /\ ~TimerManager_process(Cur).conns[c].open


(***************************************************************************)
(* The server with clients of protocol version 2, over the time the idle   *)
(* timers need: clients that say hello with version 2 alone, publish a     *)
(* service with a ttl of 0 or 1, ping or stay silent.                      *)
(***************************************************************************)
\* the requests of these clients in a transaction with id t
Version2Requests(t) ==
    {HelloRequest(t, k, MIN_VERSION, MIN_VERSION) : k \in ClientIds}
    \cup {PublishRequest(t, <<1, 0, PropsA, ttl>>) : ttl \in 0..1}
    \cup {Message("subscribe", t, "request", [subscription_id |-> 1, filter |-> NoFilter])}
    \cup {Message("ping", t, "request", NoArgs)}

NextVersion2 ==
    \/ \E c \in ConnIds, conn_addr \in {UxAddr, TcpAddr} : Accept(c, conn_addr)
    \/ \E c \in ConnIds, t \in TaIds : \E m \in Version2Requests(t) : Receive(c, m)
    \/ \E c \in ConnIds : Close(c)
    \/ \E c \in ConnIds : Send(c)
    \/ TimerActivate
    \/ LateTick

SpecVersion2 == Init /\ [][NextVersion2]_vars

\* connection c has completed its handshake with protocol version 2
C23_Case(c) ==
    /\ Handshaked(c)
    /\ conns[c].proto_version = 2
    /\ clients[conns[c].client_id].active # <<>>

\* the connected client k is ACTIVE in state r and its idle timer is pending
ActiveWithTimer(r, k) ==
    /\ r.clients[k].active[1].idle_state = "ACTIVE"
    /\ r.clients[k].active[1].idle_timer # None
    /\ IdleTimersOf(r, k) = <<Timer("idle", k, r.clients[k].active[1].idle_timer)>>

\* C23: a connection of protocol version 2 is never timed out for
\* idleness, whatever the ttl of its services and however long it is
\* silent: between the callbacks its idle state is ACTIVE with an idle timer
\* pending, and the timers that fire leave it open, ACTIVE and with an idle
\* timer later than now, and queue nothing for it but the notifications of
\* its subscriptions, so its idle state never reaches TIMED_OUT.
C23_Version2NeverTimedOut ==
    \A c \in ConnIds :
        C23_Case(c) =>
            /\ ActiveWithTimer(Cur, conns[c].client_id)
            /\ LET r == TimerManager_process(Cur) IN
               r.crash = "" =>
                   /\ r.conns[c].open
                   /\ r.conns[c].handshaked
                   /\ \A n \in 1..Len(Enqueued(r, c)) :
                          Enqueued(r, c)[n].msg_type = "notify"
                   /\ ActiveWithTimer(r, conns[c].client_id)
                   /\ r.clients[conns[c].client_id].active[1].idle_timer > now

\* a connection of protocol version 2 that holds a service with ttl 0 is as
\* old as the longest idle time allows, its idle timer is due once more,
\* and the timers that fire leave it open
C23_Witness ==
    \E c \in ConnIds :
        /\ C23_Case(c)
        /\ now >= conns[c].connect_time + IdleMax
        /\ clients[conns[c].client_id].active[1].services # <<>>
        /\ DB_get_service(Cur, clients[conns[c].client_id].active[1].services[1]).ttl = 0
        /\ clients[conns[c].client_id].active[1].idle_timer <= now
        /\ TimerManager_process(Cur).crash = ""
        /\ TimerManager_process(Cur).conns[c].open


(***************************************************************************)
(* Protocol errors (paf/server.py Transaction.message, request and inform, *)
(* Connection.process and the handlers of Connection.activate).            *)
(***************************************************************************)
AcceptedTas(c) == {t \in DOMAIN conns[c].tas : conns[c].tas[t].state = "ACCEPTED"}

\* the messages that are protocol errors on connection c: a request on an
\* accepted transaction, an inform on a transaction never requested, a
\* message of a type only the server sends, and a message Message.parse
\* rejects (unknown command, missing or invalid field)
ProtocolErrors(c) ==
    {Message(conns[c].tas[t].cmd, t, "request", NoArgs) : t \in AcceptedTas(c)}
    \cup {Ping(t) : t \in AcceptedTas(c)}
    \cup {Message("track", ta_id[c], "inform", [track_type |-> y]) : y \in {"query", "reply"}}
    \cup {Message("ping", ta_id[c], y, NoArgs) : y \in {"accept", "notify", "complete", "fail"}}
    \cup {Junk}

\* the client whose disconnect the end of connection c runs
ClientOf(c) == IF conns[c].handshaked THEN conns[c].client_id ELSE None

\* the step to r, the end of connection c, left the open connection d with
\* its transactions, its client, the services of its client and its
\* subscriptions, behind what was queued for it, and d is served in r
OtherConnectionKept(r, c, d) ==
    /\ r.conns[d] = [conns[d] EXCEPT !.out_wire_msgs = r.conns[d].out_wire_msgs]
    /\ QueueKept(r, d)
    /\ d \in clientless_connections <=> d \in r.clientless_connections
    /\ conns[d].handshaked =>
           /\ conns[d].client_id \in DOMAIN r.client_connections
           /\ r.client_connections[conns[d].client_id] = d
           /\ r.clients[conns[d].client_id] = clients[conns[d].client_id]
           /\ IdleTimersOf(r, conns[d].client_id) = IdleTimersOf(Cur, conns[d].client_id)
           /\ SelectSeq(r.subscriptions, LAMBDA sub : sub.match_cb = d)
                  = SelectSeq(subscriptions, LAMBDA sub : sub.match_cb = d)
           /\ SelectSeq(r.services, LAMBDA e : e.cur.client_id = conns[d].client_id)
                  = SelectSeq(services, LAMBDA e : e.cur.client_id = conns[d].client_id)
    /\ (ta_id[d] # None /\ ta_id[d] \notin DOMAIN conns[d].tas /\ conns[d].handshaked) =>
           EnqueuedSince(r, Connection_try_receive(r, d, Ping(ta_id[d])), d)
               = <<Complete("ping", ta_id[d])>>

\* C24: a protocol error on a connection closes that connection without an
\* answer and runs its disconnect (its client has no active connection,
\* its subscriptions are removed, the services its engine connection holds
\* are orphans), as the end of the stream does; every other connection
\* stays open with its services, subscriptions and transactions unchanged
\* and is served.
C24_ProtocolErrorClosesThatConnectionOnly ==
    \A c \in ConnIds :
        (crash = "" /\ conns[c].open /\ ta_id[c] # None) =>
            \A m \in ProtocolErrors(c) :
                LET r == Received(c, m) IN
                /\ r = Received(c, Closed)
                /\ ClosedByServer(r, c, ClientOf(c))
                /\ conns[c].handshaked =>
                       \A n \in 1..Len(clients[conns[c].client_id].active[1].services) :
                           Orphaned(Cur, r, clients[conns[c].client_id].active[1].services[n])
                /\ \A d \in ConnIds \ {c} : conns[d].open => OtherConnectionKept(r, c, d)

\* a handshaked connection that holds a service sends a message of a type
\* only the server sends and is closed, while another connection is open
\* with a subscription that is notified of the orphan
C24_Witness ==
    \E c \in ConnIds, d \in ConnIds :
        /\ c # d
        /\ Handshaked(c) /\ Handshaked(d)
        /\ AcceptedTas(d) # {}
        /\ clients[conns[c].client_id].active[1].services # <<>>
        /\ ~Received(c, Message("ping", ta_id[c], "complete", NoArgs)).conns[c].open
        /\ Enqueued(Received(c, Message("ping", ta_id[c], "complete", NoArgs)), d) # <<>>

(***************************************************************************)
(* The shape of a transaction (paf/server.py Transaction.complete, fail,   *)
(* accept, notify and terminate, Connection.ta_terminated).  The messages  *)
(* of a transaction are those each callback queues for it, in order.       *)
(***************************************************************************)
\* the messages of transaction t among the messages q
TaMessages(q, t) == SelectSeq(q, LAMBDA m : m.ta_id = t)

Final(m) == m.msg_type \in {"complete", "fail"}

\* the messages q continue a transaction of command cmd that was accepted
\* before: notifications, then at most one complete
Continues(q, cmd, from) ==
    \A j \in from..Len(q) :
        /\ q[j].ta_cmd = cmd
        /\ q[j].msg_type = "notify" \/ (j = Len(q) /\ q[j].msg_type = "complete")

\* the messages q open a transaction of command cmd in its shape
Opens(q, cmd) ==
    /\ Len(q) >= 1
    /\ q[1].ta_cmd = cmd
    /\ IF InteractionType(cmd) = "SINGLE_RESPONSE" THEN Len(q) = 1 /\ Final(q[1])
       ELSE \/ Len(q) = 1 /\ q[1].msg_type = "fail"
            \/ q[1].msg_type = "accept" /\ Continues(q, cmd, 2)

\* the transaction ids on connection d before and after the step to r
TasOf(r, d) ==
    DOMAIN conns[d].tas \cup DOMAIN r.conns[d].tas
    \cup {Enqueued(r, d)[n].ta_id : n \in 1..Len(Enqueued(r, d))}

\* the step to r, which has received the request with command cmd on the new
\* transaction t of connection c (or no request, with c = None), has queued
\* for each transaction of each connection messages of its shape and keeps
\* the transactions that no complete or fail has terminated
ShapesKept(r, c, t, cmd) ==
    \A d \in ConnIds :
        r.conns[d].open =>
            \A u \in TasOf(r, d) :
                LET q == TaMessages(Enqueued(r, d), u) IN
                /\ IF d = c /\ u = t THEN Opens(q, cmd)
                   ELSE /\ u \in DOMAIN conns[d].tas
                        /\ Continues(q, conns[d].tas[u].cmd, 1)
                /\ u \in DOMAIN r.conns[d].tas <=> ~(Len(q) > 0 /\ Final(q[Len(q)]))
                /\ u \in DOMAIN r.conns[d].tas => r.conns[d].tas[u].state = "ACCEPTED"
                /\ (u \notin DOMAIN r.conns[d].tas /\ r.conns[d].handshaked) =>
                       EnqueuedSince(r, Connection_try_receive(r, d, Ping(u)), d)
                           = <<Complete("ping", u)>>

\* the requests a client may send on a new transaction of connection c
NewRequests(c) ==
    RunRequests(ta_id[c])
    \cup {Message("services", ta_id[c], "request", [filter |-> f]) : f \in ClaimFilters}
    \cup {Message("ping", ta_id[c], "request", NoArgs),
          Message("track", ta_id[c], "request", NoArgs)}

\* C25: the messages the server queues for a transaction follow the shape
\* of its command: one complete or fail for a single-response command; a
\* fail alone, or an accept followed by notifications and at most one
\* complete, for a multi-response command; a transaction that a complete or
\* fail has terminated is no longer in the map of the connection, nothing
\* more is queued for it, and a request with its id starts a transaction.
\* Between the callbacks every transaction in the map is accepted.
C25_TransactionsFollowShape ==
    crash = "" =>
        /\ \A c \in ConnIds : \A t \in DOMAIN conns[c].tas :
               /\ conns[c].open
               /\ conns[c].tas[t].state = "ACCEPTED"
               /\ InteractionType(conns[c].tas[t].cmd) # "SINGLE_RESPONSE"
        /\ \A c \in ConnIds :
               (conns[c].open /\ ta_id[c] # None /\ ta_id[c] \notin DOMAIN conns[c].tas) =>
                   \A m \in NewRequests(c) :
                       LET r == Received(c, m) IN
                       (r.crash = "" /\ r.conns[c].open) => ShapesKept(r, c, m.ta_id, m.ta_cmd)
        /\ \A c \in ConnIds :
               (conns[c].open /\ conns[c].handshaked /\ Connection_is_tracked(Cur, c)) =>
                   \A y \in {"query", "reply"} :
                       LET r == Received(c, Message("track", conns[c].track_ta_id, "inform",
                                                    [track_type |-> y]))
                       IN r.crash = "" => ShapesKept(r, None, None, "")
        /\ \A c \in ConnIds :
               conns[c].open => ShapesKept(Received(c, Closed), None, None, "")
        /\ TimerManager_process(Cur).crash = "" =>
               ShapesKept(TimerManager_process(Cur), None, None, "")

\* a connection with an accepted subscribe transaction sends the
\* unsubscribe that completes it: two completes are queued, and both
\* transactions leave the map
C25_Witness ==
    \E c \in ConnIds, sub_id \in SubIds :
        /\ Handshaked(c)
        /\ sub_id \in DOMAIN conns[c].sub_tas
        /\ conns[c].sub_tas[sub_id] \in DOMAIN conns[c].tas
        /\ LET r == Received(c, UnsubscribeRequest(ta_id[c], sub_id)) IN
           /\ r.crash = ""
           /\ Len(Enqueued(r, c)) = 2
           /\ DOMAIN r.conns[c].tas = DOMAIN conns[c].tas \ {conns[c].sub_tas[sub_id]}


(***************************************************************************)
(* The order of the output (paf/server.py Connection.respond and           *)
(* Connection.try_send).                                                   *)
(***************************************************************************)
\* the limits of a send batch the properties range over
BatchLimits == {1, 2, MAX_SEND_BATCH}

\* Connection.try_send with the given batch limit on the queue q, for
\* every way the socket can take a message or answer EAGAIN: the socket
\* has taken the head of the queue in order and the rest is queued in order
SentInOrder(q, batch) ==
    \A sends \in [1..Min(batch, Len(q)) -> BOOLEAN] :
        LET sending == Connection_try_send_loop(q, <<>>, sends, 1, Min(batch, Len(q))) IN
        /\ sending.sent \o sending.out_wire_msgs = q
        /\ Len(sending.sent) = Cardinality({i \in DOMAIN sends : sends[i]})

\* the step to r has left what was queued for each connection that stays
\* open ahead of what it has queued, and Connection.try_send sends the
\* queue of r in order
OrderKept(r) ==
    r.crash = "" =>
        \A d \in ConnIds :
            (conns[d].open /\ r.conns[d].open) =>
                /\ QueueKept(r, d)
                /\ \A batch \in BatchLimits : SentInOrder(r.conns[d].out_wire_msgs, batch)
                /\ Connection_try_send(r, d, Len(r.conns[d].out_wire_msgs)).conns[d].out_wire_msgs
                       = <<>>

C27_Case(a, b, i) ==
    /\ a # b
    /\ Handshaked(a) /\ Handshaked(b)
    /\ ta_id[b] \notin DOMAIN conns[b].tas
    /\ Owns(a, i)
    /\ UserOf(b) = Stored(i).user_id

\* the state r lists service i with the record e for connection b
Listed(r, b, t, i, e) ==
    Contains(EnqueuedSince(r, Connection_try_receive(
                                  r, b, Message("services", t, "request",
                                                [filter |-> NoFilter])), b),
             Message("services", t, "notify",
                     [service_id |-> i, generation |-> e.generation,
                      service_props |-> e.props, ttl |-> e.ttl,
                      client_id |-> e.client_id, orphan_since |-> e.orphan_since]))

\* C27: when the connected client B publishes, with the same generation,
\* props and ttl, a service that the connected client A of the same user
\* owns, the publish completes and the service is B's; when the connection
\* of A is closed afterwards the service is left as it is, no orphan, with
\* no orphan timer and no notification, and it stays listed, while B is
\* connected, when its ttl has passed.
C27_CapturedServiceSurvivesFormerOwner ==
    \A a \in ConnIds, b \in ConnIds, i \in ServiceIds :
        C27_Case(a, b, i) =>
            LET t == ta_id[b]
                kb == conns[b].client_id
                captured == [Stored(i) EXCEPT !.client_id = kb]
                r1 == Received(b, PublishRequest(t, <<i, Stored(i).generation,
                                                     Stored(i).props, Stored(i).ttl>>))
                r2 == Connection_try_receive(r1, a, Closed)
            IN /\ r1.crash = ""
               /\ Contains(Enqueued(r1, b), Complete("publish", t))
               /\ DB_get_service(r1, i) = captured
               /\ Contains(r1.clients[kb].active[1].services, i)
               /\ r2.crash = ""
               /\ ~r2.conns[a].open
               /\ DB_has_service(r2, i)
               /\ DB_get_service(r2, i) = captured
               /\ ~HasOrphanTimer(r2, i)
               /\ Contains(r2.clients[kb].active[1].services, i)
               /\ \A n \in 1..Len(subscriptions) :
                      subscriptions[n].match_cb # a =>
                          NotificationsSince(r1, r2, subscriptions[n], i) = <<>>
               /\ \A n \in 0..Stored(i).ttl :
                      (Elapse(r2, n).crash = "" /\ Elapse(r2, n).conns[b].open) =>
                          /\ DB_has_service(Elapse(r2, n), i)
                          /\ DB_get_service(Elapse(r2, n), i) = captured
                          /\ Listed(Elapse(r2, n), b, t + 1, i, captured)

\* client A owns a service, client B of the same user is connected and
\* republishes it; A's connection closes and when the ttl of the service
\* has passed B is connected and the service is stored
C27_Witness ==
    \E a \in ConnIds, b \in ConnIds, i \in ServiceIds :
        /\ C27_Case(a, b, i)
        /\ LET r1 == Received(b, PublishRequest(ta_id[b], <<i, Stored(i).generation,
                                                           Stored(i).props, Stored(i).ttl>>))
               r3 == Elapse(Connection_try_receive(r1, a, Closed), Stored(i).ttl)
           IN /\ r3.crash = ""
              /\ r3.conns[b].open
              /\ DB_has_service(r3, i)


(***************************************************************************)
(* The server with a limit of one client in total (paf/server.py           *)
(* Server.num_connections, client_capacity_left, max_clients_reached,      *)
(* sock_activate and conn_terminated).                                     *)
(***************************************************************************)
InitOneClient ==
    /\ max_user_resources = resources(None, None, None)
    /\ max_total_resources = resources(1, None, None)
    /\ now = 0
    /\ deque = <<>>
    /\ orphan_timers = EmptyDict
    /\ clients = EmptyDict
    /\ services = <<>>
    /\ subscriptions = <<>>
    /\ consumers = EmptyDict
    /\ conns = [c \in ConnIds |-> ClosedConnection]
    /\ clientless_connections = {}
    /\ client_connections = EmptyDict
    /\ clean_out_timer = None
    /\ acceptable = TRUE
    /\ crash = ""
    /\ ta_id = [c \in ConnIds |-> None]

SpecOneClient == InitOneClient /\ [][Next]_vars

\* the transport connections that are open in state r
OpenConnections(r) == {c \in ConnIds : r.conns[c].open}

\* the step to r has closed a connection
ClosedOne(r) == \E c \in ConnIds : conns[c].open /\ ~r.conns[c].open

HoldersOf(cl, i) ==
    {x \in (DOMAIN cl) \X (1..(NConn + 1)) :
        /\ x[2] <= Len(Client_get_connections(cl[x[1]]))
        /\ Contains(Client_get_connections(cl[x[1]])[x[2]].services, i)}

\* the engine connection at x is one of the inactive ones of its client
Inactive(cl, x) == x[2] > Len(cl[x[1]].active)

\* C29: between operations every stored service is held by one engine
\* connection, and it is an orphan (orphan-since set) if and only if that
\* connection is inactive.
C29_OrphanIffHolderInactive ==
    crash = "" =>
        \A n \in 1..Len(services) :
            LET i == services[n].service_id IN
            /\ Cardinality(HoldersOf(clients, i)) = 1
            /\ \A x \in HoldersOf(clients, i) :
                   (services[n].cur.orphan_since # None) <=> Inactive(clients, x)


\* the orphan timers of service i that are pending in the timer wheel
OrphanTimersOf(dq, i) == SelectSeq(dq, LAMBDA x : x.kind = "orphan" /\ x.id = i)

\* C30: between operations every orphaned service has exactly one orphan
\* timer pending in the timer wheel, which is the one registered under its
\* service id, and it expires at orphan-since + ttl of the service's
\* current generation.
C30_OneOrphanTimerPerOrphan ==
    crash = "" =>
        \A n \in 1..Len(services) :
            LET i == services[n].service_id
                cur == services[n].cur
            IN cur.orphan_since # None =>
                   /\ i \in DOMAIN orphan_timers
                   /\ orphan_timers[i] = Timer("orphan", i, cur.orphan_since + cur.ttl)
                   /\ OrphanTimersOf(deque, i) = <<orphan_timers[i]>>

\* a service with a positive ttl is an orphan since a time later than the
\* start, its timer is registered, and another timer is pending as well
C30_Witness ==
    /\ crash = ""
    /\ Len(deque) > 1
    /\ \E n \in 1..Len(services) :
           /\ services[n].cur.orphan_since # None
           /\ services[n].cur.orphan_since > 0
           /\ services[n].cur.ttl > 0
           /\ services[n].service_id \in DOMAIN orphan_timers


\* the user ids that clients, services, subscriptions or counters carry
KnownUsers ==
    DOMAIN consumers
    \cup {clients[k].user_id : k \in DOMAIN clients}
    \cup {services[n].cur.user_id : n \in 1..Len(services)}
    \cup {subscriptions[n].user_id : n \in 1..Len(subscriptions)}

\* what user u owns: its connected clients, its services, its subscriptions
LiveEntities(u) ==
    resources(Cardinality({k \in DOMAIN clients :
                               clients[k].user_id = u /\ Client_is_connected(clients[k])}),
              Cardinality({n \in 1..Len(subscriptions) : subscriptions[n].user_id = u}),
              Cardinality({n \in 1..Len(services) : services[n].cur.user_id = u}))

\* C31: between operations the counters of every user equal the number of
\* its clients with an active connection, of the services (orphans
\* included) and of the subscriptions that carry its user id, and a user
\* with nothing of them has no counter record.
C31_CountersEqualLiveEntities ==
    crash = "" =>
        \A u \in KnownUsers :
            IF u \in DOMAIN consumers
            THEN consumers[u] = LiveEntities(u) /\ consumers[u] # resources(0, 0, 0)
            ELSE LiveEntities(u) = resources(0, 0, 0)


(***************************************************************************)
(* The server started without limits or with a limit of no client per user *)
(* (paf/conf.py ResourcesClassConf.set_limit accepts every value >= 0).    *)
(***************************************************************************)
InitNoClient ==
    /\ max_user_resources \in {resources(None, None, None), resources(0, None, None)}
    /\ max_total_resources = resources(None, None, None)
    /\ now = 0
    /\ deque = <<>>
    /\ orphan_timers = EmptyDict
    /\ clients = EmptyDict
    /\ services = <<>>
    /\ subscriptions = <<>>
    /\ consumers = EmptyDict
    /\ conns = [c \in ConnIds |-> ClosedConnection]
    /\ clientless_connections = {}
    /\ client_connections = EmptyDict
    /\ clean_out_timer = None
    /\ acceptable = TRUE
    /\ crash = ""
    /\ ta_id = [c \in ConnIds |-> None]

SpecNoClient == InitNoClient /\ [][Next]_vars


\* the orphan timers that are pending in the timer wheel
PendingOrphanTimers == {deque[n] : n \in {m \in 1..Len(deque) : deque[m].kind = "orphan"}}

\* C32: between operations the client id of every stored service names a
\* client that is registered in the engine, and exactly one engine
\* connection holds the service, which is a connection of that client;
\* so every pending orphan timer finds its service, the owning client and
\* the holding connection, and the timers that fire at its expiry raise no
\* error and remove the service.
C32_ServiceHeldByOneConnectionOfItsClient ==
    crash = "" =>
        /\ \A n \in 1..Len(services) :
               /\ services[n].cur.client_id \in DOMAIN clients
               /\ Cardinality(HoldersOf(clients, services[n].service_id)) = 1
               /\ \A x \in HoldersOf(clients, services[n].service_id) :
                      x[1] = services[n].cur.client_id
        /\ \A t \in PendingOrphanTimers :
               /\ DB_has_service(Cur, t.id)
               /\ Stored(t.id).client_id \in DOMAIN clients
               /\ Client_get_service_connection(clients[Stored(t.id).client_id], t.id) # 0
               /\ LET r == TimerManager_process(
                               [Cur EXCEPT !.now = Max(now, t.expiration_time)])
                  IN r.crash = "" /\ ~DB_has_service(r, t.id)

\* the orphan timer of a service, which an inactive connection of its client
\* holds, is the next timer and is due
C32_Witness ==
    /\ crash = ""
    /\ Len(deque) > 0
    /\ deque[1].kind = "orphan"
    /\ deque[1].expiration_time <= now
    /\ DB_has_service(Cur, deque[1].id)
    /\ \E x \in HoldersOf(clients, deque[1].id) :
           Inactive(clients, x) /\ x[1] = Stored(deque[1].id).client_id


\* the engine connections that hold subscription i: <<client id, position>>
SubscriptionHoldersOf(cl, i) ==
    {x \in (DOMAIN cl) \X (1..(NConn + 1)) :
        /\ x[2] <= Len(Client_get_connections(cl[x[1]]))
        /\ Contains(Client_get_connections(cl[x[1]])[x[2]].subscriptions, i)}

\* in state r every subscription is held by one engine connection, an
\* active one of its client, and is delivered to an open connection
SubscriptionsHeld(r) ==
    \A n \in 1..Len(r.subscriptions) :
        LET sub == r.subscriptions[n] IN
        /\ sub.client_id \in DOMAIN r.clients
        /\ Cardinality(SubscriptionHoldersOf(r.clients, sub.sub_id)) = 1
        /\ \A x \in SubscriptionHoldersOf(r.clients, sub.sub_id) :
               x[1] = sub.client_id /\ ~Inactive(r.clients, x)
        /\ r.conns[sub.match_cb].open
        /\ r.conns[sub.match_cb].client_id = sub.client_id

\* C33: between operations every subscription is held by exactly one
\* engine connection, which is active, and no inactive connection holds
\* one; the close of a connection removes all its subscriptions from the
\* engine and releases their resources, also those that match the services
\* the close turns into orphans, and nothing is queued for a closed
\* connection, by the close or by the timers that fire later.
C33_SubscriptionsHeldByActiveConnections ==
    crash = "" =>
        /\ SubscriptionsHeld(Cur)
        /\ \A k \in DOMAIN clients, j \in 1..NConn :
               j <= Len(clients[k].inactive) => clients[k].inactive[j].subscriptions = <<>>
        /\ \A c \in ConnIds : ~conns[c].open => conns[c] = ClosedConnection
        /\ \A c \in ConnIds :
               Handshaked(c) =>
                   LET r == Received(c, Closed)
                       mine == {n \in 1..Len(subscriptions) : subscriptions[n].match_cb = c}
                       r2 == TimerManager_process([r EXCEPT !.now = now + MaxTTL])
                   IN /\ r.crash = ""
                      /\ SubscriptionsHeld(r)
                      /\ r.subscriptions
                             = SelectSeq(subscriptions, LAMBDA sub : sub.match_cb # c)
                      /\ ResourceManager_total(r, "SUBSCRIPTION")
                             = ResourceManager_total(Cur, "SUBSCRIPTION") - Cardinality(mine)
                      /\ r.conns[c] = ClosedConnection
                      /\ r2.crash = "" => r2.conns[c] = ClosedConnection

\* a connection has a subscription that matches a service its client owns:
\* its close turns the service into an orphan and removes the subscription
C33_Witness ==
    \E c \in ConnIds, n \in 1..NSubId, i \in ServiceIds :
        /\ Handshaked(c)
        /\ n <= Len(subscriptions)
        /\ subscriptions[n].match_cb = c
        /\ Owns(c, i)
        /\ Matching(subscriptions[n].filter, Stored(i).props)
        /\ Received(c, Closed).subscriptions = <<>>
        /\ DB_get_service(Received(c, Closed), i).orphan_since = now


\* C34: between operations every registered client has an active
\* connection or an inactive connection that holds a service, and every
\* inactive connection that is retained holds a service.
C34_NoStaleClientOrConnection ==
    crash = "" =>
        \A k \in DOMAIN clients :
            /\ ~Client_is_stale(clients[k])
            /\ \A j \in 1..NConn :
                   j <= Len(clients[k].inactive) => clients[k].inactive[j].services # <<>>


\* the next timer is the idle timer of client k, whose connection is ACTIVE:
\* its warning timer
C35_Case(k) ==
    /\ crash = ""
    /\ Len(deque) > 0
    /\ deque[1] = Timer("idle", k, deque[1].expiration_time)
    /\ k \in DOMAIN clients
    /\ Client_is_connected(clients[k])
    /\ clients[k].active[1].idle_state = "ACTIVE"
    /\ k \in DOMAIN client_connections

\* the state after TimerManager.process has taken the next timer at its
\* expiry and run its handler
NextTimerFired ==
    Timer_handler([Cur EXCEPT !.deque = Tail(deque),
                              !.now = Max(now, deque[1].expiration_time)], deque[1])

\* the time between the idle warning and the idle timeout of client k
TimeoutInterval(r, k) ==
    SdConnection_max_idle_time(r, r.clients[k].active[1]) - WarningInterval(r, k)

\* in state r one idle timer of client k is pending, for the remaining part
\* of its longest idle time
TimeoutTimerInstalled(r, k) ==
    /\ r.clients[k].active[1].idle_timer = r.now + TimeoutInterval(r, k)
    /\ IdleTimersOf(r, k) = <<Timer("idle", k, r.now + TimeoutInterval(r, k))>>

NTimers == 3        \* timer handles 1..NTimers

MaxExpiry == 2      \* expiry times 0..MaxExpiry

\* TimerManager.add, the caller keeps the handle
AddTimer(id, expiration_time) ==
    /\ crash = ""
    /\ id \notin DOMAIN orphan_timers
    /\ Commit([TimerManager_add(Cur, Timer("clean", id, expiration_time))
                  EXCEPT !.orphan_timers = Put(@, id, Timer("clean", id, expiration_time))],
              ta_id)

\* TimerManager.remove of a timer that is pending
RemoveTimer(id) ==
    /\ crash = ""
    /\ id \in DOMAIN orphan_timers
    /\ Contains(deque, orphan_timers[id])
    /\ Commit(TimerManager_remove(Cur, orphan_timers[id]), ta_id)

NextTimers ==
    \/ \E id \in 1..NTimers, expiration_time \in 0..MaxExpiry : AddTimer(id, expiration_time)
    \/ \E id \in 1..NTimers : RemoveTimer(id)
    \/ TimerActivate
    \/ Tick

SpecTimers == Init /\ [][NextTimers]_vars

\* the handles of the timers that have fired or were removed
GoneTimers == {id \in DOMAIN orphan_timers : ~Contains(deque, orphan_timers[id])}

\* C37: TimerManager.remove of a timer that has fired or was removed before
\* raises no error, whether the queue is empty or not, and leaves the
\* pending timers and the next timeout as they are.
C37_RemoveOfGoneTimerIsNoOp ==
    crash = "" =>
        \A id \in GoneTimers :
            /\ TimerManager_remove(Cur, orphan_timers[id]).crash = ""
            /\ TimerManager_remove(Cur, orphan_timers[id]).deque = deque
            /\ TimerManager_next_timeout(TimerManager_remove(Cur, orphan_timers[id]))
                   = TimerManager_next_timeout(Cur)


\* the queue is sorted by expiry
SortedByExpiry(dq) ==
    \A n \in 1..(Len(dq) - 1) : dq[n].expiration_time <= dq[n + 1].expiration_time

\* how often a timer is in a queue
TimerCount(dq, timer) == Cardinality({n \in 1..Len(dq) : dq[n] = timer})

\* the queue dq1 holds the timers of dq and the timer once more
OneMore(dq1, dq, timer) ==
    /\ Len(dq1) = Len(dq) + 1
    /\ \A n \in 1..Len(dq1) :
           TimerCount(dq1, dq1[n])
               = TimerCount(dq, dq1[n]) + (IF dq1[n] = timer THEN 1 ELSE 0)

\* the earliest of the expiries of a queue, None for none
EarliestExpiry(dq) ==
    IF Len(dq) = 0 THEN None
    ELSE CHOOSE e \in {dq[n].expiration_time : n \in 1..Len(dq)} :
             \A n \in 1..Len(dq) : e <= dq[n].expiration_time

\* C38: after any sequence of add and remove with any expiries, ties
\* included, the queue is sorted by expiry and next_timeout is the earliest
\* expiry of the timers added and not yet removed or fired, None when there
\* is none: every add of a further timer yields the sorted queue of the
\* pending timers and the new one, and every remove of a pending timer the
\* sorted queue of the others.
C38_NextTimeoutIsEarliestExpiry ==
    crash = "" =>
        /\ SortedByExpiry(deque)
        /\ TimerManager_next_timeout(Cur) = EarliestExpiry(deque)
        /\ \A id \in (1..(NTimers + 1)) \ DOMAIN orphan_timers, expiration_time \in 0..MaxExpiry :
               LET timer == Timer("clean", id, expiration_time)
                   r == TimerManager_add(Cur, timer)
               IN /\ r.crash = ""
                  /\ OneMore(r.deque, deque, timer)
                  /\ SortedByExpiry(r.deque)
                  /\ TimerManager_next_timeout(r) = EarliestExpiry(r.deque)
                  /\ TimerManager_next_timeout(r)
                         = IF Len(deque) = 0 THEN expiration_time
                           ELSE Min(expiration_time, TimerManager_next_timeout(Cur))
        /\ \A id \in DOMAIN orphan_timers \ GoneTimers :
               LET r == TimerManager_remove(Cur, orphan_timers[id]) IN
               /\ r.crash = ""
               /\ OneMore(deque, r.deque, orphan_timers[id])
               /\ SortedByExpiry(r.deque)
               /\ TimerManager_next_timeout(r) = EarliestExpiry(r.deque)

\* after adds and a remove or a firing two timers with the same expiry are
\* pending, and a further timer with an earlier expiry is added before them
C38_Witness ==
    /\ crash = ""
    /\ GoneTimers # {}
    /\ Len(deque) = 2
    /\ deque[1].expiration_time = deque[2].expiration_time
    /\ deque[1].expiration_time > 0
    /\ TimerManager_next_timeout(TimerManager_add(Cur, Timer("clean", NTimers + 1, 0))) = 0


\* the timers the loop of TimerManager.process takes from the queue of s
\* when due, in this order, each with the state its handler leaves
RECURSIVE Firings(_)
Firings(s) ==
    IF s.crash # "" \/ Len(s.deque) = 0 THEN <<>>
    ELSE IF s.now < s.deque[1].expiration_time THEN <<>>
    ELSE LET after == Timer_handler([s EXCEPT !.deque = Tail(@)], s.deque[1]) IN
         <<[timer |-> s.deque[1], after |-> after]>> \o Firings(after)

\* TimerManager.process, called in s, fires the pending timers with an
\* expiry up to now and no other, in the order of their expiries, also
\* those its handlers add, each one once and taken from the queue, and
\* leaves no timer that is due
FiresDueTimers(s) ==
    LET r == TimerManager_process(s)
        fired == Firings(s)
    IN r.crash = "" =>
           /\ r = IF fired = <<>> THEN s ELSE fired[Len(fired)].after
           /\ \A n \in 1..Len(fired) :
                  /\ fired[n].timer.expiration_time <= s.now
                  /\ n < Len(fired) =>
                         fired[n].timer.expiration_time <= fired[n + 1].timer.expiration_time
                  /\ ~Contains(fired[n].after.deque, fired[n].timer)
                  /\ \A m \in 1..Len(fired) : fired[m].timer = fired[n].timer => m = n
           /\ \A n \in 1..Len(s.deque) :
                  s.deque[n].expiration_time <= s.now
                      => \E m \in 1..Len(fired) : fired[m].timer = s.deque[n]
           /\ \A n \in 1..Len(r.deque) : r.deque[n].expiration_time > s.now
           /\ TimerManager_next_timeout(r) = None \/ TimerManager_next_timeout(r) > s.now
           /\ SortedByExpiry(r.deque)

\* the state in which connection c has published service 1 with ttl 0 and
\* then was silent for n units of time, one more unit later
SilentPublisher(c, n) ==
    [Elapse(Received(c, PublishRequest(ta_id[c], <<1, 0, PropsA, 0>>)), n)
        EXCEPT !.now = @ + 1]

\* C36: TimerManager.process fires exactly the pending timers whose expiry
\* is not later than now, in non-decreasing order of expiry, each taken
\* from the queue before its handler runs; the handlers add and remove
\* timers, a timer a handler adds with an expiry not later than now fires
\* in the same call, and afterwards next_timeout is None or later than now.
\* This is checked for a call at any time from now on, and for the calls
\* after a publish with ttl 0, where the idle timeout of the publisher adds
\* an orphan timer that is due at once.
C36_ProcessFiresDueTimersInOrder ==
    crash = "" =>
        /\ \A d \in 0..MaxLateTime : FiresDueTimers([Cur EXCEPT !.now = now + d])
        /\ \A c \in ConnIds, n \in 0..IdleMax :
               Handshaked(c) => FiresDueTimers(SilentPublisher(c, n))

\* the idle timeout of a silent connection with a service of ttl 0 fires,
\* its handler adds the orphan timer of the service, and the orphan timer
\* fires in the same call
C36_Witness ==
    \E c \in ConnIds, n \in 0..IdleMax :
        /\ Handshaked(c)
        /\ SilentPublisher(c, n).crash = ""
        /\ Len(Firings(SilentPublisher(c, n))) > 1
        /\ TimerManager_process(SilentPublisher(c, n)).crash = ""
        /\ \E m \in 1..Len(Firings(SilentPublisher(c, n))) :
               /\ Firings(SilentPublisher(c, n))[m].timer.kind = "orphan"
               /\ ~Contains(SilentPublisher(c, n).deque,
                            Firings(SilentPublisher(c, n))[m].timer)


\* Connection.activate on s when in_wire_msg waits in the socket of c and
\* the socket takes what the server sends
Activate(s, c, in_wire_msg) ==
    IF Connection_receivable(s, c) THEN Connection_activate(s, c, in_wire_msg)
    ELSE IF Connection_sendable(s, c)
    THEN Connection_try_send(s, c, Min(MAX_SEND_BATCH, Len(s.conns[c].out_wire_msgs)))
    ELSE s

\* the state of now but that the client of c has not read its last replies,
\* so that n messages wait in the outbound queue of c
Slow(c, n) ==
    [Cur EXCEPT !.conns[c].out_wire_msgs =
                    [i \in 1..(n - Len(@)) |-> Complete("ping", 0)] \o @]

\* state r is state s but that the outbound queue of c holds queue
SameButQueue(r, s, c, queue) == r = [s EXCEPT !.conns[c].out_wire_msgs = queue]

\* requests with one reply, with many replies, and that notify subscribers
BacklogRequests(c) ==
    {Ping(ta_id[c]),
     Message("services", ta_id[c], "request", [filter |-> NoFilter]),
     SubscribeRequest(ta_id[c], 1, NoFilter),
     PublishRequest(ta_id[c], <<1, 0, PropsA, 1>>),
     PublishRequest(ta_id[c], <<2, 1, PropsB, 1>>),
     UnpublishRequest(ta_id[c], 1)}

\* C39: while the outbound queue of a connection holds SOFT_OUT_WIRE_LIMIT
\* (128) messages or more the server reads no message from it, it only
\* sends; once the queue is below the limit the next message is read and
\* processed; the replies to a request read just below the limit and the
\* notifications of its subscriptions are appended whatever the length of
\* the queue; and the requests of every other connection are served as
\* they are without the backlog.
C39_FullQueueStopsReading ==
    \A c \in ConnIds :
        Handshaked(c) =>
            /\ \A n \in {SOFT_OUT_WIRE_LIMIT, SOFT_OUT_WIRE_LIMIT + 1} :
                   LET full == Slow(c, n)
                       sent == Connection_try_send(full, c, MAX_SEND_BATCH)
                   IN /\ ~Connection_receivable(full, c)
                      /\ Len(sent.conns[c].out_wire_msgs) = n - MAX_SEND_BATCH
                      /\ Connection_receivable(sent, c)
                      /\ \A m \in BacklogRequests(c) :
                             /\ Activate(full, c, m) = sent
                             /\ Activate(sent, c, m) = Connection_activate(sent, c, m)
            /\ \A m \in BacklogRequests(c) :
                   LET under == Slow(c, SOFT_OUT_WIRE_LIMIT - 1)
                       r == Connection_try_receive(under, c, m)
                   IN /\ Activate(under, c, m) = Connection_activate(under, c, m)
                      /\ Received(c, m).conns[c].open =>
                             SameButQueue(r, Received(c, m), c,
                                          under.conns[c].out_wire_msgs
                                              \o Enqueued(Received(c, m), c))
            /\ \A d \in ConnIds \ {c} :
                   Handshaked(d) =>
                       \A m \in BacklogRequests(d) :
                           LET over == Slow(c, SOFT_OUT_WIRE_LIMIT + 1)
                               r == Connection_try_receive(over, d, m)
                           IN Received(d, m).conns[c].open =>
                                  SameButQueue(r, Received(d, m), c,
                                               over.conns[c].out_wire_msgs
                                                   \o Enqueued(Received(d, m), c))

\* a connection with a subscription has a full outbound queue, and the
\* request of another connection appends a notification to it
C39_Witness ==
    \E c \in ConnIds, d \in ConnIds :
        /\ c # d
        /\ Handshaked(c)
        /\ Handshaked(d)
        /\ \E m \in BacklogRequests(d) :
               /\ Enqueued(Received(d, m), c) # <<>>
               /\ Len(Connection_try_receive(Slow(c, SOFT_OUT_WIRE_LIMIT), d, m)
                          .conns[c].out_wire_msgs) > SOFT_OUT_WIRE_LIMIT
               /\ ~Connection_receivable(Slow(c, SOFT_OUT_WIRE_LIMIT), c)


\* the errors of Connection.idle_timer_fired: its assertion, and a timer
\* that fires without an active connection of its client
IdleTimerErrors == {"AssertionError", "StaleIdleTimer"}

====
